---- MODULE Spec2Model ----
(***************************************************************************)
(* Blackjack table engine of bot.py: card shoe, hands, seats, the table's  *)
(* turn state machine, the command handlers (coroutines, split at their    *)
(* await points), the turn-timeout sweep and the settlement.               *)
(*                                                                         *)
(* Conventions.  Python lists are sequences, so every index is the         *)
(* source's index plus one: current_player_index = Len(players) + 1 is the *)
(* source's "index == len(players)", and None is 0.  A card is the pair    *)
(* <<rank, suit>>.  random.shuffle may leave any order: create_shoe picks  *)
(* one of the orders of Shuffles.  A shoe is its length and top, the cards *)
(* it pops next, in pop order; below top the order is unknown and a pop    *)
(* yields any card of RestCards.                                           *)
(* Objects that a suspended coroutine still holds after they left the      *)
(* table (a removed TablePlayer) are kept in that coroutine's locals.      *)
(***************************************************************************)
EXTENDS Integers, Sequences, FiniteSets, TLC

\* ------------------------------------------------------------ constants
DECKS_COUNT == 5
TOTAL_CARDS == 52 * DECKS_COUNT
RESHUFFLE_THRESHOLD == 60
MAX_PLAYERS == 3
TURN_TIMEOUT == 30
START_BALANCE == 1000

\* ------------------------------------------------------------ bounds
\* handler coroutines that may be in flight at once
MaxInflight == 1
\* commands the users send in a run
MaxCmds == 5
\* a hit is taken only on a hand shorter than this
MaxHandLen == 3
\* get_card calls made on a shoe taken alone
MaxDraws == 3

\* the users that send commands, the table ids uuid4 may produce, the bets a
\* command may carry, the amounts by which the clock advances between two steps
Users == {1, 2}
Tids == {1}
BetChoices == {500, 600}
TickSteps == {31}

\* the orders random.shuffle may leave on top of a new shoe, and the cards a
\* pop may yield once that top is used up
Shuffles ==
    { << <<"K", "S">>, <<"6", "H">>, <<"K", "H">>, <<"Q", "D">>, <<"A", "S">>,
         <<"J", "C">>, <<"A", "H">>, <<"5", "D">>, <<"10", "C">>, <<"9", "S">>,
         <<"4", "H">>, <<"K", "D">>, <<"6", "C">>, <<"2", "S">> >>,
      << <<"9", "C">>, <<"8", "D">>, <<"10", "D">>, <<"6", "S">>, <<"8", "H">>,
         <<"8", "C">>, <<"K", "C">>, <<"3", "H">>, <<"Q", "S">>, <<"5", "C">>,
         <<"J", "D">>, <<"2", "H">>, <<"7", "S">>, <<"A", "D">> >> }
RestCards == {<<"9", "H">>, <<"3", "D">>}

Procs == 0 .. MaxInflight
Slots == 1 .. MaxInflight
SWEEP == 0

VARIABLES tables, balance, pc, loc, sent

vars == <<tables, balance, pc, loc, sent>>

\* a command arrives and its handler starts
Send == sent < MaxCmds /\ sent' = sent + 1

\* ------------------------------------------------------------ cards, hands
RankInt(r) ==
    CASE r = "2" -> 2 [] r = "3" -> 3 [] r = "4" -> 4 [] r = "5" -> 5
      [] r = "6" -> 6 [] r = "7" -> 7 [] r = "8" -> 8 [] r = "9" -> 9
      [] r = "10" -> 10

CardPoints(c) ==
    IF c[1] \in {"J", "Q", "K"} THEN 10 ELSE IF c[1] = "A" THEN 11 ELSE RankInt(c[1])

RECURSIVE SumPoints(_)
SumPoints(hand) ==
    IF hand = <<>> THEN 0 ELSE CardPoints(Head(hand)) + SumPoints(Tail(hand))

RECURSIVE CountAces(_)
CountAces(hand) ==
    IF hand = <<>> THEN 0
    ELSE (IF Head(hand)[1] = "A" THEN 1 ELSE 0) + CountAces(Tail(hand))

\* a reduction that counts one ace as 1 at most
ReduceOnce(val, aces) == IF val > 21 /\ aces > 0 THEN val - 10 ELSE val

RECURSIVE ReduceAces(_, _)
ReduceAces(val, aces) ==
    IF val > 21 /\ aces > 0 THEN ReduceAces(val - 10, aces - 1) ELSE val

\* GameTable._hand_value
hand_value(hand) == ReduceAces(SumPoints(hand), CountAces(hand))

\* a split test that wants equal ranks
can_split_same_rank(card1, card2) == card1[1] = card2[1]

can_split_cards(card1, card2) ==
    LET r1 == card1[1]
        r2 == card2[1]
        ten_like == {"10", "J", "Q", "K"}
    IN  IF r1 = r2 THEN TRUE
        ELSE IF r1 \in ten_like /\ r2 \in ten_like THEN TRUE
        ELSE FALSE

\* ------------------------------------------------------------ TablePlayer
TablePlayer(user_id, bet) ==
    [user_id |-> user_id, original_bet |-> bet, hands |-> << <<>> >>,
     bets |-> <<bet>>, statuses |-> <<"waiting">>, current_hand_index |-> 1,
     is_ready |-> FALSE]

NoPlayer == TablePlayer(0, 0)

\* the properties hand, bet, status: the entry at current_hand_index
hand(p) == p.hands[p.current_hand_index]
bet(p) == p.bets[p.current_hand_index]
status(p) == p.statuses[p.current_hand_index]

set_status(p, s) == [p EXCEPT !.statuses[p.current_hand_index] = s]
set_bet(p, b) == [p EXCEPT !.bets[p.current_hand_index] = b]
append_two(p, c) == [p EXCEPT !.hands[p.current_hand_index] = Append(Append(@, c), c)]
append_card(p, c) == [p EXCEPT !.hands[p.current_hand_index] = Append(@, c)]

\* TablePlayer.value
value(p) == ReduceAces(SumPoints(hand(p)), CountAces(hand(p)))

has_active_hand(p) == \E i \in 1 .. Len(p.statuses) : p.statuses[i] = "playing"

\* 0 stands for None
first_active_hand_index(p) ==
    IF has_active_hand(p)
    THEN CHOOSE i \in 1 .. Len(p.statuses) :
            /\ p.statuses[i] = "playing"
            /\ \A j \in 1 .. (i - 1) : p.statuses[j] # "playing"
    ELSE 0

\* ------------------------------------------------------------ CardSystem
\* create_shoe: 5 decks in one of the shuffled orders
create_shoe == {[len |-> TOTAL_CARDS, top |-> sh] : sh \in Shuffles}

\* self.shoe.pop(): the card and the shoe left
pop(shoe) ==
    IF shoe.top # <<>>
    THEN {[card |-> Head(shoe.top),
           shoe |-> [len |-> shoe.len - 1, top |-> Tail(shoe.top)]]}
    ELSE {[card |-> c, shoe |-> [len |-> shoe.len - 1, top |-> <<>>]] : c \in RestCards}

\* a get_card that rebuilds a shoe of 60 cards
get_card_eager(shoe) ==
    IF shoe.len <= RESHUFFLE_THRESHOLD
    THEN UNION { {[card |-> r.card, s |-> TRUE, shoe |-> r.shoe] : r \in pop(sh)} :
                 sh \in create_shoe }
    ELSE {[card |-> r.card, s |-> FALSE, shoe |-> r.shoe] : r \in pop(shoe)}

\* get_card: every (card, reshuffled, shoe left) the call may give
get_card(shoe) ==
    IF shoe.len < RESHUFFLE_THRESHOLD
    THEN UNION { {[card |-> r.card, s |-> TRUE, shoe |-> r.shoe] : r \in pop(sh)} :
                 sh \in create_shoe }
    ELSE {[card |-> r.card, s |-> FALSE, shoe |-> r.shoe] : r \in pop(shoe)}

\* ------------------------------------------------------------ GameTable
\* a table id not in use yet; made is false until GameTable() is called
NoTable ==
    [made |-> FALSE, reg |-> FALSE, is_public |-> FALSE, owner_id |-> 0,
     players |-> <<>>, dealer_hand |-> <<>>, deck |-> [len |-> 0, top |-> <<>>],
     state |-> "waiting",
     current_player_index |-> 1, shuffle_alert |-> FALSE, elapsed |-> 0,
     rounds |-> 0, fin_runs |-> 0, asked |-> {}]

\* GameTable.__init__ followed by tables[tid] = table.  elapsed is
\* time.time() - last_action_time, kept up to TURN_TIMEOUT + 1; rounds counts
\* the start_game and reset_round calls, fin_runs the finalize_game_db calls
\* since the last of them; asked holds the users cb_prejoin has shown the bet
\* keyboard of this table.
GameTable(is_public, owner_id, shoe) ==
    [made |-> TRUE, reg |-> TRUE, is_public |-> is_public, owner_id |-> owner_id,
     players |-> <<>>, dealer_hand |-> <<>>, deck |-> shoe, state |-> "waiting", current_player_index |-> 1, shuffle_alert |-> FALSE,
     elapsed |-> 0, rounds |-> 0, fin_runs |-> 0, asked |-> {}]

update_activity(T) == [T EXCEPT !.elapsed = 0]

add_player(T, user_id, b) ==
    update_activity([T EXCEPT !.players = Append(@, TablePlayer(user_id, b))])

Seated(T, user_id) == \E i \in 1 .. Len(T.players) : T.players[i].user_id = user_id

\* get_player: the index of the first seat of that user, 0 for None
get_player(T, user_id) ==
    IF Seated(T, user_id)
    THEN CHOOSE i \in 1 .. Len(T.players) :
            /\ T.players[i].user_id = user_id
            /\ \A j \in 1 .. (i - 1) : T.players[j].user_id # user_id
    ELSE 0

remove_player(T, user_id) ==
    LET keep == SelectSeq(T.players, LAMBDA p : p.user_id # user_id)
        owner == IF user_id = T.owner_id
                 THEN (IF keep # <<>> THEN keep[1].user_id ELSE 0)
                 ELSE T.owner_id
    IN  update_activity([T EXCEPT !.players = keep, !.owner_id = owner])

check_all_ready(T) ==
    IF T.players = <<>> THEN FALSE
    ELSE \A i \in 1 .. Len(T.players) : T.players[i].is_ready

reset_player(p) ==
    [p EXCEPT !.hands = << <<>> >>, !.bets = <<p.original_bet>>,
              !.statuses = <<"waiting">>, !.current_hand_index = 1,
              !.is_ready = FALSE]

\* a reset that leaves the dealer's cards on the table
reset_round_keep_dealer(T) ==
    update_activity(
        [T EXCEPT !.state = "waiting",
                  !.rounds = @ + 1, !.fin_runs = 0,
                  !.players = [i \in 1 .. Len(T.players) |-> reset_player(T.players[i])]])

reset_round(T) ==
    update_activity(
        [T EXCEPT !.state = "waiting", !.dealer_hand = <<>>,
                  !.rounds = @ + 1, !.fin_runs = 0,
                  !.players = [i \in 1 .. Len(T.players) |-> reset_player(T.players[i])]])

\* a dealer who draws up to 18
RECURSIVE play_dealer_18(_)
play_dealer_18(T) ==
    IF hand_value(T.dealer_hand) < 18
    THEN UNION { play_dealer_18(
                    [T EXCEPT !.deck = g.shoe,
                              !.shuffle_alert = (@ \/ g.s),
                              !.dealer_hand = Append(@, g.card)]) :
                 g \in get_card(T.deck) }
    ELSE {[T EXCEPT !.state = "finished"]}

\* play_dealer: the tables it may end in, one for every run of the shoe
RECURSIVE play_dealer(_)
play_dealer(T) ==
    IF hand_value(T.dealer_hand) < 17
    THEN UNION { play_dealer(
                    [T EXCEPT !.deck = g.shoe,
                              !.shuffle_alert = (@ \/ g.s),
                              !.dealer_hand = Append(@, g.card)]) :
                 g \in get_card(T.deck) }
    ELSE {[T EXCEPT !.state = "finished"]}

\* the while loop of process_turns from seat i on
RECURSIVE turn_scan(_, _)
turn_scan(T, i) ==
    IF i <= Len(T.players)
    THEN IF has_active_hand(T.players[i])
         THEN {[T EXCEPT !.current_player_index = i,
                         !.players[i].current_hand_index =
                              first_active_hand_index(T.players[i])]}
         ELSE turn_scan(T, i + 1)
    ELSE play_dealer([T EXCEPT !.current_player_index = i, !.state = "dealer_turn"])

\* a process_turns that leaves the pointer where it is
process_turns_stay(T) == {update_activity(T)}

process_turns(T) == turn_scan(update_activity(T), T.current_player_index)

\* a deal that does not look for a natural
deal_player_plain(T, i, g1, g2) ==
    [T EXCEPT !.deck = g2.shoe,
              !.players[i] = [@ EXCEPT !.hands = << <<g1.card, g2.card>> >>,
                                       !.bets = <<T.players[i].original_bet>>,
                                       !.statuses = <<"playing">>,
                                       !.current_hand_index = 1],
              !.shuffle_alert = (@ \/ g1.s \/ g2.s)]

\* the body of start_game's loop for seat i, with the draws g1 then g2
deal_player(T, i, g1, g2) ==
    LET p0 == T.players[i]
        p1 == [p0 EXCEPT !.hands = << <<g1.card, g2.card>> >>,
                         !.bets = <<p0.original_bet>>,
                         !.statuses = <<"playing">>, !.current_hand_index = 1]
        p2 == IF value(p1) = 21 THEN set_status(p1, "blackjack") ELSE p1
    IN  [T EXCEPT !.deck = g2.shoe, !.players[i] = p2,
                  !.shuffle_alert = (@ \/ g1.s \/ g2.s)]

RECURSIVE deal_players(_, _)
deal_players(T, i) ==
    IF i > Len(T.players) THEN {T}
    ELSE UNION { UNION { deal_players(deal_player(T, i, g1, g2), i + 1) :
                         g2 \in get_card(g1.shoe) } :
                 g1 \in get_card(T.deck) }

\* the dealer's two cards of start_game
deal_dealer(T) ==
    UNION { { [T EXCEPT !.deck = g2.shoe, !.dealer_hand = <<g1.card, g2.card>>,
                        !.shuffle_alert = (g1.s \/ g2.s)] :
              g2 \in get_card(g1.shoe) } :
            g1 \in get_card(T.deck) }

start_game(T) ==
    UNION { UNION { process_turns(
                        [D EXCEPT !.state = "player_turn", !.current_player_index = 1,
                                  !.rounds = @ + 1, !.fin_runs = 0]) :
                    D \in deal_players(T0, 1) } :
            T0 \in deal_dealer(T) }

\* ------------------------------------------------------------ settlement
\* one pass of finalize_game_db's inner loop: result_type and win_amount
hand_result(st, b, hnd, d_val) ==
    LET hand_val == hand_value(hnd)
    IN  IF st = "bust" THEN [result |-> "loss", win |-> 0 - b]
        ELSE IF st = "blackjack" \/ (Len(hnd) = 2 /\ hand_val = 21)
             THEN [result |-> "blackjack", win |-> (b * 3) \div 2]
        ELSE IF d_val > 21 \/ (hand_val <= 21 /\ hand_val > d_val)
             THEN [result |-> "win", win |-> b]
        ELSE IF hand_val < d_val /\ d_val <= 21
             THEN [result |-> "loss", win |-> 0 - b]
        ELSE [result |-> "push", win |-> 0]

\* total_win_amount of a player: empty hands are skipped
RECURSIVE total_win(_, _, _)
total_win(p, d_val, k) ==
    IF k > Len(p.hands) THEN 0
    ELSE (IF p.hands[k] = <<>> THEN 0
          ELSE hand_result(p.statuses[k], p.bets[k], p.hands[k], d_val).win)
         + total_win(p, d_val, k + 1)

\* ------------------------------------------------------------ registry
\* a render that leaves the registry alone
update_table_messages_keep(tbls, t) == tbls

\* update_table_messages up to its first await: a table left empty is deleted
update_table_messages(tbls, t) ==
    IF tbls[t].reg /\ tbls[t].players = <<>>
    THEN [tbls EXCEPT ![t].reg = FALSE]
    ELSE tbls

\* the tables leave_all_tables(user_id, exclude_tid) removes the user from
left_tables(tbls, user_id, ex) ==
    {t \in DOMAIN tbls : tbls[t].reg /\ t # ex /\ Seated(tbls[t], user_id)}

leave_all_tables(tbls, user_id, ex) ==
    [t \in DOMAIN tbls |->
        IF t \in left_tables(tbls, user_id, ex)
        THEN LET T1 == remove_player(tbls[t], user_id)
             IN  [T1 EXCEPT !.reg = (T1.players # <<>>)]
        ELSE tbls[t]]

\* uuid4: an id no table has had
Fresh(tbls, t) == ~tbls[t].made /\ \A s \in DOMAIN tbls : s < t => tbls[s].made

\* ------------------------------------------------------------ coroutines
\* the locals of a coroutine: its table and user, the bet of the command,
\* its TablePlayer (live: still seated, else the removed object rec), the
\* players finalize_game_db still has to settle with the dealer value it
\* computed, and the tables the sweep still has to visit
IdleLoc ==
    [tid |-> 0, uid |-> 0, bet |-> 0, live |-> TRUE, rec |-> NoPlayer,
     fin |-> <<>>, dval |-> 0, rest |-> <<>>]

\* remove_player(user_id) ran on the tables S of tbls: a coroutine that holds
\* one of the removed TablePlayer objects keeps it as it was
detach(lc, tbls, user_id, S) ==
    [h \in DOMAIN lc |->
        LET l == lc[h]
        IN  IF l.tid \in S
            THEN LET p == tbls[l.tid].players[get_player(tbls[l.tid], user_id)]
                 IN  [l EXCEPT
                        !.rec = IF l.live /\ l.uid = user_id THEN p ELSE l.rec,
                        !.live = IF l.uid = user_id THEN FALSE ELSE l.live,
                        !.fin = [k \in 1 .. Len(l.fin) |->
                                    IF l.fin[k].live /\ l.fin[k].uid = user_id
                                    THEN [uid |-> user_id, live |-> FALSE, rec |-> p]
                                    ELSE l.fin[k]]]
            ELSE l]

\* the TablePlayer a coroutine holds
ref_player(tbls, l) ==
    IF l.live THEN tbls[l.tid].players[get_player(tbls[l.tid], l.uid)] ELSE l.rec

\* the table after the coroutine assigned p to its TablePlayer
put_player(T, l, p) ==
    IF l.live THEN [T EXCEPT !.players[get_player(T, l.uid)] = p] ELSE T

\* "for p in table.players" of finalize_game_db
fin_list(T) ==
    [k \in 1 .. Len(T.players) |->
        [uid |-> T.players[k].user_id, live |-> TRUE, rec |-> NoPlayer]]

\* where a coroutine goes on after its last await on a table: a handler
\* ends, the sweep visits the next table of its list or sleeps
Back(h, lc) ==
    IF h = SWEEP THEN (IF lc[h].rest = <<>> THEN "sleep" ELSE "loop") ELSE "idle"

BackLoc(h, lc) == IF h = SWEEP THEN [IdleLoc EXCEPT !.rest = lc[h].rest] ELSE IdleLoc

\* finalize_game_db is entered: d_val is computed, the first get_player_data awaited
begin_finalize(h, lc, tbls, t) ==
    IF tbls[t].players = <<>>
    THEN /\ tables' = update_table_messages(tbls, t)
         /\ pc' = [pc EXCEPT ![h] = Back(h, lc)]
         /\ loc' = [lc EXCEPT ![h] = BackLoc(h, lc)]
    ELSE /\ tables' = [tbls EXCEPT ![t].fin_runs = @ + 1]
         /\ pc' = [pc EXCEPT ![h] = "finalize"]
         /\ loc' = [lc EXCEPT ![h] =
                      [IdleLoc EXCEPT !.tid = t, !.fin = fin_list(tbls[t]),
                                      !.dval = hand_value(tbls[t].dealer_hand),
                                      !.rest = lc[h].rest]]

\* the end of hit, stand and double:
\*   if table.state == "finished": await finalize_game_db(table)
\*   await update_table_messages(tid)
finish(h, lc, tbls, t) ==
    IF tbls[t].state = "finished"
    THEN begin_finalize(h, lc, tbls, t)
    ELSE /\ tables' = update_table_messages(tbls, t)
         /\ pc' = [pc EXCEPT ![h] = Back(h, lc)]
         /\ loc' = [lc EXCEPT ![h] = BackLoc(h, lc)]

\* a settlement that takes the hands it has paid off the table
FinStepClearing(h) ==
    /\ UNCHANGED sent
    /\ pc[h] = "finalize"
    /\ LET l == loc[h]
           e == Head(l.fin)
           j == get_player(tables[l.tid], e.uid)
           p == IF e.live THEN tables[l.tid].players[j] ELSE e.rec
           tb == IF e.live
                 THEN [tables EXCEPT ![l.tid].players[j].hands =
                          [k \in 1 .. Len(p.hands) |-> <<>>]]
                 ELSE tables
       IN  /\ balance' = [balance EXCEPT ![e.uid] = @ + total_win(p, l.dval, 1)]
           /\ IF Len(l.fin) = 1
              THEN /\ tables' = update_table_messages(tb, l.tid)
                   /\ pc' = [pc EXCEPT ![h] = Back(h, loc)]
                   /\ loc' = [loc EXCEPT ![h] = BackLoc(h, loc)]
              ELSE /\ tables' = tb
                   /\ loc' = [loc EXCEPT ![h].fin = Tail(l.fin)]
                   /\ UNCHANGED pc

\* finalize_game_db settles its next player: balance read, hands paid,
\* update_player_stats; after the last one the caller renders the table
FinStep(h) ==
    /\ UNCHANGED sent
    /\ pc[h] = "finalize"
    /\ LET l == loc[h]
           e == Head(l.fin)
           p == IF e.live
                THEN tables[l.tid].players[get_player(tables[l.tid], e.uid)]
                ELSE e.rec
       IN  /\ balance' = [balance EXCEPT ![e.uid] = @ + total_win(p, l.dval, 1)]
           /\ IF Len(l.fin) = 1
              THEN /\ tables' = update_table_messages(tables, l.tid)
                   /\ pc' = [pc EXCEPT ![h] = Back(h, loc)]
                   /\ loc' = [loc EXCEPT ![h] = BackLoc(h, loc)]
              ELSE /\ loc' = [loc EXCEPT ![h].fin = Tail(l.fin)]
                   /\ UNCHANGED <<tables, pc>>

\* ------------------------------------------------------------ the clock
\* time passes: every table's last action gets d older.  Only the sweep reads
\* the clock, and only on a table in player_turn.  The awaits of a handler are
\* short against TURN_TIMEOUT: the clock moves while the sweep sleeps and no
\* handler is between two of its awaits
Tick(d) ==
    /\ pc[SWEEP] = "sleep" /\ \A h \in Slots : pc[h] = "idle"
    /\ \E t \in Tids : /\ tables[t].reg /\ tables[t].state = "player_turn"
                        /\ tables[t].elapsed <= TURN_TIMEOUT
    /\ tables' = [t \in Tids |->
                    IF tables[t].made
                    THEN [tables[t] EXCEPT !.elapsed =
                            IF @ + d > TURN_TIMEOUT THEN TURN_TIMEOUT + 1 ELSE @ + d]
                    ELSE tables[t]]
    /\ UNCHANGED <<balance, pc, loc, sent>>

\* ------------------------------------------------------------ lobby commands
\* create_multi_table after its get_player_data
CreateMulti(u, b) ==
    /\ Send
    /\ balance[u] >= b
    /\ \E t \in DOMAIN tables, shoe \in create_shoe :
        /\ Fresh(tables, t)
        /\ LET S == left_tables(tables, u, 0)
               tb == leave_all_tables(tables, u, 0)
           IN  /\ tables' = [tb EXCEPT ![t] = add_player(GameTable(TRUE, u, shoe), u, b)]
               /\ loc' = detach(loc, tables, u, S)
    /\ UNCHANGED <<balance, pc>>

\* cb_start_solo after its get_player_data, up to the await of the render
StartSolo(h, u, b) ==
    /\ Send
    /\ pc[h] = "idle"
    /\ balance[u] >= b
    /\ \E t \in DOMAIN tables, shoe \in create_shoe :
        /\ Fresh(tables, t)
        /\ LET S == left_tables(tables, u, 0)
               tb == leave_all_tables(tables, u, 0)
           IN  \E T2 \in start_game(add_player(GameTable(FALSE, u, shoe), u, b)) :
                /\ tables' = [tb EXCEPT ![t] = T2]
                /\ loc' = [detach(loc, tables, u, S) EXCEPT
                              ![h] = [IdleLoc EXCEPT !.tid = t, !.uid = u]]
    /\ pc' = [pc EXCEPT ![h] = "deal_render"]
    /\ UNCHANGED balance

\* cb_start_solo, cb_ready and cb_replay after the render of the deal:
\*   if table.state == "finished": await finalize_game_db(table)
DealRender(h) ==
    /\ UNCHANGED sent
    /\ pc[h] = "deal_render"
    /\ IF tables[loc[h].tid].state = "finished"
       THEN begin_finalize(h, loc, tables, loc[h].tid)
       ELSE /\ pc' = [pc EXCEPT ![h] = "idle"]
            /\ loc' = [loc EXCEPT ![h] = IdleLoc]
            /\ UNCHANGED tables
    /\ UNCHANGED balance

\* cb_join_confirm up to its get_player_data
JoinCheck(h, t, u, b) ==
    /\ Send
    /\ pc[h] = "idle"
    /\ tables[t].reg /\ tables[t].state = "waiting"
    /\ tables[t].is_public
    /\ ~Seated(tables[t], u)
    /\ pc' = [pc EXCEPT ![h] = "join_balance"]
    /\ loc' = [loc EXCEPT ![h] = [IdleLoc EXCEPT !.tid = t, !.uid = u, !.bet = b]]
    /\ UNCHANGED <<tables, balance>>

\* cb_join_confirm from the balance check on
JoinResume(h) ==
    /\ UNCHANGED sent
    /\ pc[h] = "join_balance"
    /\ LET l == loc[h]
           S == left_tables(tables, l.uid, 0)
           tb == leave_all_tables(tables, l.uid, 0)
       IN  IF balance[l.uid] < l.bet
           THEN /\ loc' = [loc EXCEPT ![h] = IdleLoc]
                /\ UNCHANGED tables
           ELSE /\ tables' = update_table_messages(
                                [tb EXCEPT ![l.tid] = add_player(@, l.uid, l.bet)], l.tid)
                /\ loc' = [detach(loc, tables, l.uid, S) EXCEPT ![h] = IdleLoc]
    /\ pc' = [pc EXCEPT ![h] = "idle"]
    /\ UNCHANGED balance

\* cb_ready up to call.answer; the button is on the lobby keyboard of a public
\* table
Ready(h, t, u) ==
    /\ Send
    /\ pc[h] = "idle"
    /\ tables[t].reg /\ tables[t].is_public /\ Seated(tables[t], u)
    /\ tables' = [tables EXCEPT ![t].players[get_player(tables[t], u)].is_ready = TRUE]
    /\ pc' = [pc EXCEPT ![h] = "ready_answer"]
    /\ loc' = [loc EXCEPT ![h] = [IdleLoc EXCEPT !.tid = t, !.uid = u]]
    /\ UNCHANGED balance

\* cb_ready after call.answer
ReadyResume(h) ==
    /\ UNCHANGED sent
    /\ pc[h] = "ready_answer"
    /\ LET t == loc[h].tid
       IN  IF check_all_ready(tables[t])
           THEN /\ \E T2 \in start_game(tables[t]) :
                      tables' = update_table_messages([tables EXCEPT ![t] = T2], t)
                /\ pc' = [pc EXCEPT ![h] = "deal_render"]
                /\ UNCHANGED loc
           ELSE /\ tables' = update_table_messages(tables, t)
                /\ pc' = [pc EXCEPT ![h] = "idle"]
                /\ loc' = [loc EXCEPT ![h] = IdleLoc]
    /\ UNCHANGED balance

\* cb_multi_rebet up to its get_player_data; the button follows "rematch" on
\* the keyboard of a public table
Rebet(h, t, u, b) ==
    /\ Send
    /\ pc[h] = "idle"
    /\ tables[t].reg /\ tables[t].is_public /\ Seated(tables[t], u)
    /\ pc' = [pc EXCEPT ![h] = "rebet_balance"]
    /\ loc' = [loc EXCEPT ![h] = [IdleLoc EXCEPT !.tid = t, !.uid = u, !.bet = b]]
    /\ UNCHANGED <<tables, balance>>

\* cb_multi_rebet from the balance check on
RebetResume(h) ==
    /\ UNCHANGED sent
    /\ pc[h] = "rebet_balance"
    /\ LET l == loc[h]
           T == tables[l.tid]
           p0 == ref_player(tables, l)
           p1 == [set_bet([p0 EXCEPT !.original_bet = l.bet], l.bet)
                    EXCEPT !.is_ready = FALSE]
           T1 == put_player(T, l, p1)
           T2 == IF T1.state = "finished" THEN reset_round(T1) ELSE T1
       IN  IF balance[p0.user_id] < l.bet
           THEN UNCHANGED tables
           ELSE tables' = update_table_messages([tables EXCEPT ![l.tid] = T2], l.tid)
    /\ pc' = [pc EXCEPT ![h] = "idle"]
    /\ loc' = [loc EXCEPT ![h] = IdleLoc]
    /\ UNCHANGED balance

\* cb_replay up to its get_player_data; p = table.players[0].  The button is
\* on the keyboard of a solo table
Replay(h, t, u) ==
    /\ Send
    /\ pc[h] = "idle"
    /\ tables[t].reg /\ ~tables[t].is_public /\ tables[t].players # <<>>
    /\ LET S == left_tables(tables, u, t)
       IN  /\ tables' = leave_all_tables(tables, u, t)
           /\ loc' = [detach(loc, tables, u, S) EXCEPT
                        ![h] = [IdleLoc EXCEPT !.tid = t,
                                                !.uid = tables[t].players[1].user_id]]
    /\ pc' = [pc EXCEPT ![h] = "replay_balance"]
    /\ UNCHANGED balance

\* cb_replay from the balance check on
ReplayResume(h) ==
    /\ UNCHANGED sent
    /\ pc[h] = "replay_balance"
    /\ LET l == loc[h]
           p == ref_player(tables, l)
       IN  IF balance[p.user_id] < p.original_bet
           THEN /\ pc' = [pc EXCEPT ![h] = "idle"]
                /\ loc' = [loc EXCEPT ![h] = IdleLoc]
                /\ UNCHANGED tables
           ELSE /\ \E T2 \in start_game(tables[l.tid]) :
                      tables' = update_table_messages([tables EXCEPT ![l.tid] = T2], l.tid)
                /\ pc' = [pc EXCEPT ![h] = "deal_render"]
                /\ UNCHANGED loc
    /\ UNCHANGED balance

\* cb_leave_lobby: remove_player, then update_table_messages up to its first
\* await; the button is on the keyboards of a public table
Leave(t, u) ==
    /\ Send
    /\ tables[t].reg /\ tables[t].is_public
    /\ tables' = update_table_messages(
                    [tables EXCEPT ![t] = remove_player(@, u)], t)
    /\ loc' = detach(loc, tables, u, IF Seated(tables[t], u) THEN {t} ELSE {})
    /\ UNCHANGED <<balance, pc>>

\* ------------------------------------------------------------ game commands
\* "if not player or table.players[table.current_player_index] != player"
\* passes; an index past the list raises IndexError and ends the handler
TurnOf(T, u) ==
    /\ T.reg
    /\ Seated(T, u)
    /\ T.current_player_index <= Len(T.players)
    /\ T.current_player_index = get_player(T, u)

\* the coroutine's TablePlayer becomes p
store_player(h, lc, p) == IF lc[h].live THEN lc ELSE [lc EXCEPT ![h].rec = p]

\* cb_hit up to its first await
Hit(h, t, u) ==
    /\ Send
    /\ pc[h] = "idle"
    /\ TurnOf(tables[t], u)
    /\ LET T == tables[t]
           i == get_player(T, u)
       IN  /\ Len(hand(T.players[i])) < MaxHandLen
           /\ \E g \in get_card(T.deck) :
                LET T1 == [T EXCEPT !.deck = g.shoe,
                                    !.shuffle_alert = (@ \/ g.s),
                                    !.players[i] = append_card(@, g.card)]
                    v == value(T1.players[i])
                    st == IF v > 21 THEN "bust" ELSE "stand"
                IN  IF v >= 21
                    THEN /\ tables' = [tables EXCEPT
                                         ![t] = [T1 EXCEPT !.players[i] = set_status(@, st)]]
                         /\ pc' = [pc EXCEPT ![h] = "hit_answer"]
                         /\ loc' = [loc EXCEPT ![h] = [IdleLoc EXCEPT !.tid = t, !.uid = u]]
                    ELSE finish(h, loc, [tables EXCEPT ![t] = T1], t)
    /\ UNCHANGED balance

\* the end of cb_hit, cb_stand and cb_double after call.answer:
\*   next_idx = player.first_active_hand_index()
\*   if next_idx is not None: player.current_hand_index = next_idx
\*   else: table.process_turns()
AfterAnswer(h) ==
    LET l == loc[h]
        t == l.tid
        p == ref_player(tables, l)
        n == first_active_hand_index(p)
    IN  /\ IF n # 0
           THEN finish(h, loc,
                       [tables EXCEPT ![t] =
                           put_player(@, l, [p EXCEPT !.current_hand_index = n])], t)
           ELSE \E T2 \in process_turns(tables[t]) :
                    finish(h, loc, [tables EXCEPT ![t] = T2], t)
        /\ UNCHANGED <<balance, sent>>

HitAnswer(h) == pc[h] = "hit_answer" /\ AfterAnswer(h)

\* cb_stand up to call.answer
Stand(h, t, u) ==
    /\ Send
    /\ pc[h] = "idle"
    /\ TurnOf(tables[t], u)
    /\ tables' = [tables EXCEPT
                    ![t].players[get_player(tables[t], u)] = set_status(@, "stand")]
    /\ pc' = [pc EXCEPT ![h] = "stand_answer"]
    /\ loc' = [loc EXCEPT ![h] = [IdleLoc EXCEPT !.tid = t, !.uid = u]]
    /\ UNCHANGED balance

StandAnswer(h) == pc[h] = "stand_answer" /\ AfterAnswer(h)

\* cb_double up to its get_player_data
Double(h, t, u) ==
    /\ Send
    /\ pc[h] = "idle"
    /\ TurnOf(tables[t], u)
    /\ pc' = [pc EXCEPT ![h] = "double_balance"]
    /\ loc' = [loc EXCEPT ![h] = [IdleLoc EXCEPT !.tid = t, !.uid = u]]
    /\ UNCHANGED <<tables, balance>>

\* a double that never busts the hand
doubled_stand(p, c) == set_status(append_card(set_bet(p, bet(p) * 2), c), "stand")

\* the player after "player.bet *= 2", the card c and the new status
doubled(p, c) ==
    LET p1 == append_card(set_bet(p, bet(p) * 2), c)
    IN  set_status(p1, IF value(p1) > 21 THEN "bust" ELSE "stand")

\* a handler that refused its command returns from "return await call.answer(...)"
RefuseAnswer(h) ==
    /\ pc[h] = "refuse_answer"
    /\ pc' = [pc EXCEPT ![h] = "idle"]
    /\ loc' = [loc EXCEPT ![h] = IdleLoc]
    /\ UNCHANGED <<tables, balance, sent>>

\* a double that raises the bet before it looks at the balance
DoubleResumeEager(h) ==
    /\ UNCHANGED sent
    /\ pc[h] = "double_balance"
    /\ LET l == loc[h]
           p == ref_player(tables, l)
           q == set_bet(p, bet(p) * 2)
       IN  IF balance[p.user_id] < bet(q)
           THEN /\ tables' = [tables EXCEPT ![l.tid] = put_player(@, l, q)]
                /\ pc' = [pc EXCEPT ![h] = "refuse_answer"]
                /\ loc' = store_player(h, loc, q)
           ELSE \E g \in get_card(tables[l.tid].deck) :
                /\ tables' = [tables EXCEPT
                                ![l.tid] = put_player([@ EXCEPT !.deck = g.shoe],
                                                      l, doubled(p, g.card))]
                /\ pc' = [pc EXCEPT ![h] = "double_answer"]
                /\ loc' = store_player(h, loc, doubled(p, g.card))
    /\ UNCHANGED balance

\* cb_double from the balance check to call.answer
DoubleResume(h) ==
    /\ UNCHANGED sent
    /\ pc[h] = "double_balance"
    /\ LET l == loc[h]
           p == ref_player(tables, l)
       IN  IF balance[p.user_id] < bet(p) * 2
           THEN /\ pc' = [pc EXCEPT ![h] = "refuse_answer"]
                /\ UNCHANGED <<tables, loc>>
           ELSE \E g \in get_card(tables[l.tid].deck) :
                /\ tables' = [tables EXCEPT
                                ![l.tid] = put_player([@ EXCEPT !.deck = g.shoe],
                                                      l, doubled(p, g.card))]
                /\ pc' = [pc EXCEPT ![h] = "double_answer"]
                /\ loc' = store_player(h, loc, doubled(p, g.card))
    /\ UNCHANGED balance

DoubleAnswer(h) == pc[h] = "double_answer" /\ AfterAnswer(h)

\* the check of cb_split before its get_player_data
split_allowed(p) ==
    ~(\/ Len(p.hands) # 1
      \/ Len(hand(p)) # 2
      \/ ~can_split_cards(hand(p)[1], hand(p)[2]))

\* cb_split up to its get_player_data, or to the answer that refuses the split
Split(h, t, u) ==
    /\ Send
    /\ pc[h] = "idle"
    /\ TurnOf(tables[t], u)
    /\ pc' = [pc EXCEPT ![h] =
                IF split_allowed(tables[t].players[get_player(tables[t], u)])
                THEN "split_balance" ELSE "refuse_answer"]
    /\ loc' = [loc EXCEPT ![h] = [IdleLoc EXCEPT !.tid = t, !.uid = u]]
    /\ UNCHANGED <<tables, balance>>

\* the player after the two hands are made and c is added to the first
split_hands(p, c) ==
    [p EXCEPT !.hands = << <<hand(p)[1], c>>, <<hand(p)[2]>> >>,
              !.bets = <<bet(p), bet(p)>>,
              !.statuses = <<"playing", "playing">>,
              !.current_hand_index = 1]

\* cb_split from the balance check on; "first_card, second_card = player.hand"
\* raises ValueError on a hand that no longer holds two cards
SplitResume(h) ==
    /\ UNCHANGED sent
    /\ pc[h] = "split_balance"
    /\ LET l == loc[h]
           T == tables[l.tid]
           p == ref_player(tables, l)
       IN  IF balance[p.user_id] < bet(p) * 2
           THEN /\ pc' = [pc EXCEPT ![h] = "refuse_answer"]
                /\ UNCHANGED <<tables, loc>>
           ELSE /\ IF Len(hand(p)) # 2
                   THEN UNCHANGED tables
                   ELSE \E g \in get_card(T.deck) :
                          tables' = update_table_messages(
                              [tables EXCEPT
                                  ![l.tid] = put_player(
                                      [T EXCEPT !.deck = g.shoe,
                                                !.shuffle_alert = (@ \/ g.s)],
                                      l, split_hands(p, g.card))], l.tid)
                /\ pc' = [pc EXCEPT ![h] = "idle"]
                /\ loc' = [loc EXCEPT ![h] = IdleLoc]
    /\ UNCHANGED balance

\* ------------------------------------------------------------ the sweep
RECURSIVE registered_from(_, _)
registered_from(tbls, t) ==
    IF t \notin DOMAIN tbls THEN <<>>
    ELSE (IF tbls[t].reg THEN <<t>> ELSE <<>>) \o registered_from(tbls, t + 1)

timed_out(T) ==
    /\ T.state = "player_turn"
    /\ T.elapsed > TURN_TIMEOUT

\* one pass of the for loop of check_timeouts_loop, up to its next await: the
\* first pass follows list(tables.values()) at once, a later one follows the
\* awaits of the pass before it
SweepVisit ==
    /\ pc[SWEEP] \in {"sleep", "loop"}
    /\ LET todo == IF pc[SWEEP] = "sleep" THEN registered_from(tables, 1)
                   ELSE loc[SWEEP].rest
       IN  /\ todo # <<>>
           /\ LET t == Head(todo)
                  T == tables[t]
                  lc == [loc EXCEPT ![SWEEP].rest = Tail(todo)]
                  i == T.current_player_index
              IN  IF timed_out(T) /\ i <= Len(T.players)
                  THEN \E T2 \in process_turns(
                                    [T EXCEPT !.players[i] = set_status(@, "stand")]) :
                           finish(SWEEP, lc, [tables EXCEPT ![t] = T2], t)
                  ELSE /\ pc' = [pc EXCEPT ![SWEEP] = Back(SWEEP, lc)]
                       /\ loc' = lc
                       /\ UNCHANGED tables
    /\ UNCHANGED <<balance, sent>>

\* ------------------------------------------------------------ the system
Init ==
    /\ tables = [t \in Tids |-> NoTable]
    /\ balance = [u \in Users |-> START_BALANCE]
    /\ pc = [h \in Procs |-> IF h = SWEEP THEN "sleep" ELSE "idle"]
    /\ loc = [h \in Procs |-> IdleLoc]
    /\ sent = 0

Next ==
    \/ \E d \in TickSteps : Tick(d)
    \/ \E u \in Users, b \in BetChoices : CreateMulti(u, b)
    \/ \E h \in Slots, u \in Users, b \in BetChoices : StartSolo(h, u, b)
    \/ \E h \in Slots : DealRender(h)
    \/ \E h \in Slots, t \in Tids, u \in Users, b \in BetChoices : JoinCheck(h, t, u, b)
    \/ \E h \in Slots : JoinResume(h)
    \/ \E h \in Slots, t \in Tids, u \in Users : Ready(h, t, u)
    \/ \E h \in Slots : ReadyResume(h)
    \/ \E h \in Slots, t \in Tids, u \in Users, b \in BetChoices : Rebet(h, t, u, b)
    \/ \E h \in Slots : RebetResume(h)
    \/ \E h \in Slots, t \in Tids, u \in Users : Replay(h, t, u)
    \/ \E h \in Slots : ReplayResume(h)
    \/ \E t \in Tids, u \in Users : Leave(t, u)
    \/ \E h \in Slots, t \in Tids, u \in Users : Hit(h, t, u)
    \/ \E h \in Slots : HitAnswer(h)
    \/ \E h \in Slots, t \in Tids, u \in Users : Stand(h, t, u)
    \/ \E h \in Slots : StandAnswer(h)
    \/ \E h \in Slots, t \in Tids, u \in Users : Double(h, t, u)
    \/ \E h \in Slots : DoubleResume(h)
    \/ \E h \in Slots : DoubleAnswer(h)
    \/ \E h \in Slots, t \in Tids, u \in Users : Split(h, t, u)
    \/ \E h \in Slots : SplitResume(h)
    \/ \E h \in Slots : RefuseAnswer(h)
    \/ SweepVisit
    \/ \E h \in Procs : FinStep(h)

Spec == Init /\ [][Next]_vars

\* ------------------------------------------------------------ properties
Terminal == {"stand", "bust", "blackjack"}

AllTerminal(T) ==
    \A i \in 1 .. Len(T.players) :
        \A k \in 1 .. Len(T.players[i].statuses) : T.players[i].statuses[k] \in Terminal

\* no handler is between two of its awaits, the sweep is between two visits
Quiet == (\A h \in Slots : pc[h] = "idle") /\ pc[SWEEP] \in {"sleep", "loop"}

\* the pointer of a table in player_turn is on a seat whose current hand is "playing"
PointerOnPlaying(T) ==
    /\ T.current_player_index \in 1 .. Len(T.players)
    /\ status(T.players[T.current_player_index]) = "playing"

\* what a round shows: all of a table but its registration, clock and counters
View(T) ==
    [state |-> T.state, players |-> T.players, dealer_hand |-> T.dealer_hand,
     deck |-> T.deck, current_player_index |-> T.current_player_index]

\* the result kind and payout settlement computes for every hand of a table
Results(T) ==
    [i \in 1 .. Len(T.players) |->
        [k \in 1 .. Len(T.players[i].hands) |->
            IF T.players[i].hands[k] = <<>> THEN [result |-> "none", win |-> 0]
            ELSE hand_result(T.players[i].statuses[k], T.players[i].bets[k],
                             T.players[i].hands[k], hand_value(T.dealer_hand))]]

\* C1: the dealer plays (the table enters dealer_turn and then finished) only
\* when every hand of every seated player is stand, bust or blackjack: no
\* seated player has a hand that is "playing" or "waiting" at that moment.
C1_DealerAfterAllTerminal ==
    [][\A t \in Tids :
          (/\ tables'[t].reg
           /\ tables'[t].state = "finished"
           /\ (tables[t].state # "finished" \/ tables'[t].rounds # tables[t].rounds))
          => AllTerminal(tables'[t])]_vars

\* C2: whenever a table is in player_turn and no command is in progress,
\* current_player_index is an index of the player list and the current hand of
\* the player there is "playing"; also after a seated player left.
C2_PointerValidAtRest ==
    \A t \in Tids :
        (tables[t].reg /\ tables[t].state = "player_turn" /\ Quiet)
        => PointerOnPlaying(tables[t])

\* C3: within one round (no start_game, no reset_round in the step), a hand
\* whose status is stand, bust or blackjack keeps that status and its cards
\* through every step of a handler and of the sweep.
C3_TerminalHandFrozen ==
    [][\A t \in Tids :
          (/\ tables[t].reg
           /\ tables[t].state # "waiting"
           /\ tables'[t].rounds = tables[t].rounds)
          => \A i \in 1 .. Len(tables[t].players) :
                LET p == tables[t].players[i]
                    j == get_player(tables'[t], p.user_id)
                IN  j # 0 =>
                      \A k \in 1 .. Len(p.statuses) :
                          p.statuses[k] \in Terminal =>
                              /\ k <= Len(tables'[t].players[j].statuses)
                              /\ tables'[t].players[j].statuses[k] = p.statuses[k]
                              /\ tables'[t].players[j].hands[k] = p.hands[k]]_vars

\* C4: a hit, stand, double or split that arrives while its table is not in
\* player_turn is refused and changes nothing of the table.
C4_OutOfTurnRefused ==
    [][\A h \in Slots, t \in Tids, u \in Users :
          (/\ Hit(h, t, u) \/ Stand(h, t, u) \/ Double(h, t, u) \/ Split(h, t, u)
           /\ tables[t].state # "player_turn")
          => (pc'[h] = "refuse_answer" /\ tables' = tables)]_vars

\* C5: finalize_game_db runs at most once for a round: between two
\* start_game/reset_round calls of a table it is entered at most once, under
\* every interleaving of the handlers and the sweep.
C5_SettledOncePerRound == \A t \in Tids : tables[t].fin_runs <= 1

\* C6: a step of settlement leaves every table's state, players (hands, bets,
\* statuses), dealer hand, shoe and pointer as they were, so the result kinds
\* and payouts it computes from the table are the same when computed again.
C6_SettlementReadsOnly ==
    [][\A h \in Procs :
          FinStep(h) =>
              \A t \in Tids : /\ View(tables'[t]) = View(tables[t])
                              /\ Results(tables'[t]) = Results(tables[t])]_vars

\* a round was settled by one run of finalize_game_db and a balance moved
C6_Witness ==
    \E t \in Tids, u \in Users :
        /\ tables[t].reg /\ tables[t].state = "finished" /\ tables[t].fin_runs = 1
        /\ Quiet
        /\ Seated(tables[t], u)
        /\ balance[u] # START_BALANCE

\* the payout C7 states for a hand that is not a blackjack
StatedPayout(st, b, v, D) ==
    IF st = "bust" THEN 0 - b
    ELSE IF D > 21 \/ v > D THEN b
    ELSE IF v = D THEN 0
    ELSE 0 - b

\* C7: in a finished round with dealer value D, every dealt hand that
\* settlement does not pay as a blackjack is paid -bet if its status is bust,
\* else +bet if D > 21 or its value is above D, 0 if its value is D, -bet if
\* its value is below D.
C7_PayoutTable ==
    \A t \in Tids :
        (tables[t].reg /\ tables[t].state = "finished" /\ tables[t].rounds >= 1) =>
            \A i \in 1 .. Len(tables[t].players) :
                LET p == tables[t].players[i]
                    D == hand_value(tables[t].dealer_hand)
                IN  \A k \in 1 .. Len(p.hands) :
                        LET r == hand_result(p.statuses[k], p.bets[k], p.hands[k], D)
                        IN  (p.hands[k] # <<>> /\ r.result # "blackjack") =>
                                r.win = StatedPayout(p.statuses[k], p.bets[k],
                                                     hand_value(p.hands[k]), D)

\* hand k of p is the two-card 21 of the deal, never split and never doubled
Natural(p, k) ==
    /\ Len(p.hands) = 1
    /\ Len(p.hands[k]) = 2
    /\ hand_value(p.hands[k]) = 21
    /\ p.bets[k] = p.original_bet

\* C8: settlement calls a hand "blackjack" and pays it floor(1.5 x bet) if and
\* only if it is the two-card 21 of the deal on a hand never split and never
\* doubled; a 21 of a split hand or of three or more cards is paid at most +bet.
C8_BlackjackOnlyNatural ==
    \A t \in Tids :
        (/\ tables[t].reg /\ tables[t].state = "finished" /\ tables[t].rounds >= 1
         /\ AllTerminal(tables[t])) =>
            \A i \in 1 .. Len(tables[t].players) :
                LET p == tables[t].players[i]
                    D == hand_value(tables[t].dealer_hand)
                IN  \A k \in 1 .. Len(p.hands) :
                        LET r == hand_result(p.statuses[k], p.bets[k], p.hands[k], D)
                        IN  p.hands[k] # <<>> =>
                              /\ (r.result = "blackjack") <=> Natural(p, k)
                              /\ Natural(p, k) => r.win = (p.bets[k] * 3) \div 2
                              /\ ~Natural(p, k) => r.win <= p.bets[k]

\* C9: a double or split that its handler refuses (balance below twice the
\* bet, or a hand that may not be split) leaves every table as it
\* was (hands, bets, statuses, hand index, shoe, pointer) and moves no balance.
C9_RefusalChangesNothing ==
    [][\A h \in Slots :
          (pc[h] # "refuse_answer" /\ pc'[h] = "refuse_answer")
          => (tables' = tables /\ balance' = balance)]_vars

\* a double or split was refused for its balance: the player at the pointer
\* still holds the one two-card hand of the deal at the original bet
C9_Witness ==
    \E h \in Slots :
        /\ pc[h] = "refuse_answer"
        /\ tables[loc[h].tid].reg
        /\ tables[loc[h].tid].state = "player_turn"
        /\ PointerOnPlaying(tables[loc[h].tid])
        /\ LET p == ref_player(tables, loc[h])
           IN  /\ loc[h].live
               /\ balance[p.user_id] < bet(p) * 2
               /\ Len(p.hands) = 1 /\ Len(hand(p)) = 2
               /\ bet(p) = p.original_bet

\* C10: while a hit, stand, double or split handler waits at one of its
\* awaits, a table in player_turn has its pointer on a hand that is "playing".
C10_ConsistentAtAwaits ==
    \A h \in Slots :
        (/\ pc[h] \in {"hit_answer", "stand_answer", "double_balance",
                       "double_answer", "split_balance"}
         /\ tables[loc[h].tid].reg
         /\ tables[loc[h].tid].state = "player_turn")
        => PointerOnPlaying(tables[loc[h].tid])

\* ------------------------------------------------------------ the deal alone
\* the cards a deal is made of, the seats it is made for (1 .. MAX_PLAYERS)
\* and the shoes whose top is any order of such cards for n seats
DealPool == {<<"A", "S">>, <<"K", "H">>, <<"9", "C">>}
Seats == 1 .. MAX_PLAYERS
DealShoes(n) ==
    {[len |-> TOTAL_CARDS, top |-> f] : f \in [1 .. (2 + 2 * n) -> DealPool]}

\* a public table with the users 1 .. n seated and ready, every bet 500
RECURSIVE SeatedTable(_, _)
SeatedTable(n, shoe) ==
    IF n = 0 THEN GameTable(TRUE, 1, shoe)
    ELSE LET T == add_player(SeatedTable(n - 1, shoe), n, 500)
         IN  [T EXCEPT !.players[n].is_ready = TRUE]

\* the state right after start_game, for every number of seats and every deal
InitDeal ==
    /\ tables \in {[t \in Tids |-> T] :
                     T \in UNION { UNION { start_game(SeatedTable(n, shoe)) :
                                           shoe \in DealShoes(n) } : n \in Seats }}
    /\ balance = [u \in Users |-> START_BALANCE]
    /\ pc = [h \in Procs |-> IF h = SWEEP THEN "sleep" ELSE "idle"]
    /\ loc = [h \in Procs |-> IdleLoc]
    /\ sent = 0

\* the player at the pointer stands, one stand after the other, and nothing
\* else happens
NextStand ==
    \/ \E t \in Tids, u \in Seats : Stand(1, t, u)
    \/ StandAnswer(1)

SpecStand == InitDeal /\ [][NextStand]_vars /\ WF_vars(NextStand)

\* the hands of a table that are "playing"
RECURSIVE PlayingCount(_, _)
PlayingCount(T, i) ==
    IF i > Len(T.players) THEN 0
    ELSE Cardinality({k \in 1 .. Len(T.players[i].statuses) :
                        T.players[i].statuses[k] = "playing"})
         + PlayingCount(T, i + 1)

\* between two stands: the table is over, or the stand of the player at the
\* pointer passes the handler's test and the stands sent plus the hands still
\* playing are no more than the seats
StandsBounded ==
    \A t \in Tids :
        Quiet =>
            IF tables[t].state = "player_turn"
            THEN /\ PointerOnPlaying(tables[t])
                 /\ TurnOf(tables[t],
                           tables[t].players[tables[t].current_player_index].user_id)
                 /\ sent + PlayingCount(tables[t], 1) <= Len(tables[t].players)
            ELSE /\ tables[t].state = "finished"
                 /\ AllTerminal(tables[t])
                 /\ sent <= Len(tables[t].players)

\* C11: from the state right after start_game, for 1 to 3 seats and any deal,
\* standing on the active hand again and again is never refused and reaches
\* finished after at most one stand per seat (a seat holds one hand when only
\* stands are sent).
C11_StandsReachFinished ==
    /\ []StandsBounded
    /\ <>(\A t \in Tids : tables[t].state = "finished" /\ sent <= Len(tables[t].players))

\* three seats were dealt hands below 21 and three stands ended the round
C11_Witness ==
    \E t \in Tids :
        /\ tables[t].state = "finished"
        /\ Len(tables[t].players) = MAX_PLAYERS
        /\ sent = MAX_PLAYERS
        /\ \A i \in 1 .. MAX_PLAYERS : tables[t].players[i].statuses = <<"stand">>

\* C12: a table is dealt (start_game) only when it is created as a solo
\* table, from waiting with every seated player ready, or from finished on a
\* solo table (replay); never while it is in player_turn.
C12_DealOnlyAtRest ==
    [][\A t \in Tids :
          (tables'[t].rounds # tables[t].rounds /\ tables'[t].state # "waiting")
          => \/ ~tables[t].made
             \/ tables[t].state = "waiting"
             \/ tables[t].state = "finished" /\ ~tables[t].is_public]_vars

\* ------------------------------------------------------------ a round alone
\* a public table of two seats right after start_game, for every deal
InitPlay ==
    /\ tables \in {[t \in Tids |-> T] :
                     T \in UNION { start_game(SeatedTable(2, shoe)) :
                                   shoe \in DealShoes(2) }}
    /\ balance = [u \in Users |-> START_BALANCE]
    /\ pc = [h \in Procs |-> IF h = SWEEP THEN "sleep" ELSE "idle"]
    /\ loc = [h \in Procs |-> IdleLoc]
    /\ sent = 0

\* the commands of a round and a player who leaves, one handler at a time
NextPlay ==
    \/ \E t \in Tids, u \in Users : Hit(1, t, u)
    \/ HitAnswer(1)
    \/ \E t \in Tids, u \in Users : Stand(1, t, u)
    \/ StandAnswer(1)
    \/ \E t \in Tids, u \in Users : Split(1, t, u)
    \/ SplitResume(1)
    \/ RefuseAnswer(1)
    \/ \E t \in Tids, u \in Users : Leave(t, u)
    \/ FinStep(1)

SpecPlay == InitPlay /\ [][NextPlay]_vars

\* ------------------------------------------------------------ the advance
\* the seats from seat i on that still hold a playing hand
PlayingSeats(T, i) == {j \in i .. Len(T.players) : has_active_hand(T.players[j])}

LowestSeat(S) == CHOOSE j \in S : \A k \in S : j <= k

\* T2 is T with the turn handed on from seat i: the pointer is on the lowest
\* playing hand of the first seat from i on that has one, and no seat before
\* it holds a playing hand; with no such seat the dealer has played
HandedOn(T, i, T2) ==
    IF PlayingSeats(T, i) # {}
    THEN LET j == LowestSeat(PlayingSeats(T, i))
         IN  /\ T2.state = "player_turn"
             /\ T2.current_player_index = j
             /\ T2.players[j].current_hand_index = first_active_hand_index(T.players[j])
             /\ PlayingSeats(T2, 1) = PlayingSeats(T2, j)
    ELSE /\ T2.state = "finished"
         /\ hand_value(T2.dealer_hand) >= 17
         /\ PlayingSeats(T2, 1) = {}

\* C13: when a hit, stand or double has made the current hand terminal, the
\* handler's advance puts the pointer on the same player's lowest-index
\* playing hand, else on the first playing hand of the nearest later seat,
\* else the dealer plays; no seat that holds a playing hand is passed over.
\* (The player is still seated when the handler advances.)
C13_AdvanceInSeatOrder ==
    [][\A h \in Slots :
          (/\ pc[h] \in {"hit_answer", "stand_answer", "double_answer"}
           /\ pc'[h] # pc[h]
           /\ loc[h].live)
          => LET l == loc[h]
                 T == tables[l.tid]
             IN  HandedOn(T, get_player(T, l.uid), tables'[l.tid])]_vars

\* ------------------------------------------------------------ split, double, hit
\* handler h, whose player is still seated, takes a step from pc value a to b
Steps(h, a, b) == pc[h] = a /\ pc'[h] = b /\ loc[h].live

\* the seat of handler h's player before the step, the player before and after
SeatOf(h) == get_player(tables[loc[h].tid], loc[h].uid)
Before(h) == tables[loc[h].tid].players[SeatOf(h)]

\* C14: an accepted split of the hand [c1, c2] with bet b leaves the player
\* with the two adjacent two-card hands [c1, x] and [c2, y], each with bet b,
\* and takes exactly two cards from the shoe.
C14_SplitDealsTwoHands ==
    [][\A h \in Slots :
          Steps(h, "split_balance", "idle")
          => LET t == loc[h].tid
                 p == Before(h)
                 q == tables'[t].players[SeatOf(h)]
             IN  /\ Len(q.hands) = 2
                 /\ Len(q.hands[1]) = 2 /\ q.hands[1][1] = hand(p)[1]
                 /\ Len(q.hands[2]) = 2 /\ q.hands[2][1] = hand(p)[2]
                 /\ q.bets = <<bet(p), bet(p)>>
                 /\ tables'[t].deck.len = tables[t].deck.len - 2]_vars

\* C15: right after an accepted split, every resulting two-card hand worth
\* 21 has status "stand" and the turn has moved past it (it is not the hand
\* the pointer is on).
C15_SplitTwentyOneStands ==
    [][\A h \in Slots :
          Steps(h, "split_balance", "idle")
          => LET T2 == tables'[loc[h].tid]
                 i == SeatOf(h)
                 q == T2.players[i]
             IN  \A k \in 1 .. Len(q.hands) :
                    (Len(q.hands[k]) = 2 /\ hand_value(q.hands[k]) = 21)
                    => /\ q.statuses[k] = "stand"
                       /\ ~(T2.current_player_index = i /\ q.current_hand_index = k)]_vars

\* C16: a split sent for a current hand of exactly two split-eligible cards
\* by a player who holds at most 3 hands passes the handler's test and goes
\* on to the balance check (a player who holds 2 or 3 hands can split again),
\* and no player ever holds more than 4 hands.
C16_ResplitAccepted ==
    [][\A h \in Slots :
          /\ (pc[h] = "idle" /\ pc'[h] \in {"split_balance", "refuse_answer"})
             => LET T == tables[loc'[h].tid]
                    p == T.players[get_player(T, loc'[h].uid)]
                IN  (/\ Len(p.hands) <= 3
                     /\ status(p) = "playing"
                     /\ Len(hand(p)) = 2
                     /\ can_split_cards(hand(p)[1], hand(p)[2]))
                    => pc'[h] = "split_balance"
          /\ \A t \in Tids : \A i \in 1 .. Len(tables'[t].players) :
                Len(tables'[t].players[i].hands) <= 4]_vars

\* C17: during a round a double of a "playing" hand is accepted (the bet is
\* raised and a card drawn) only when the hand holds exactly two cards; a hand
\* of one card or of three or more cards is never doubled.
C17_DoubleOnlyTwoCards ==
    [][\A h \in Slots :
          (/\ Steps(h, "double_balance", "double_answer")
           /\ tables[loc[h].tid].state = "player_turn"
           /\ status(Before(h)) = "playing")
          => Len(hand(Before(h))) = 2]_vars

\* hand k of player q is hand k of player p with one more card
OneCardMore(p, q, k) ==
    /\ Len(q.hands[k]) = Len(p.hands[k]) + 1
    /\ SubSeq(q.hands[k], 1, Len(p.hands[k])) = p.hands[k]

\* players q and p differ in hand k at most
OtherHandsSame(p, q, k) ==
    /\ Len(q.hands) = Len(p.hands)
    /\ \A m \in 1 .. Len(p.hands) :
          m # k => /\ q.hands[m] = p.hands[m]
                   /\ q.bets[m] = p.bets[m]
                   /\ q.statuses[m] = p.statuses[m]

\* tables T2 and T differ in seat i at most, the shoe aside
OtherSeatsSame(T, T2, i) ==
    /\ Len(T2.players) = Len(T.players)
    /\ \A j \in 1 .. Len(T.players) : j # i => T2.players[j] = T.players[j]
    /\ T2.dealer_hand = T.dealer_hand

\* C18: an accepted double multiplies the bet of the current hand by 2, draws
\* exactly one card into it, sets its status to bust if the new value is over
\* 21 and to stand otherwise and changes no other hand; after call.answer the
\* handler advances: the pointer is no longer on the doubled, now terminal,
\* hand.
C18_DoubleEffect ==
    [][\A h \in Slots :
          /\ Steps(h, "double_balance", "double_answer")
             => LET T == tables[loc[h].tid]
                    T2 == tables'[loc[h].tid]
                    i == SeatOf(h)
                    p == Before(h)
                    q == T2.players[i]
                    k == p.current_hand_index
                IN  /\ q.bets[k] = 2 * p.bets[k]
                    /\ OneCardMore(p, q, k)
                    /\ T2.deck.len = T.deck.len - 1
                    /\ q.statuses[k] = IF hand_value(q.hands[k]) > 21
                                        THEN "bust" ELSE "stand"
                    /\ q.current_hand_index = k
                    /\ OtherHandsSame(p, q, k)
                    /\ OtherSeatsSame(T, T2, i)
          /\ (Steps(h, "double_answer", pc'[h]) /\ pc'[h] # "double_answer")
             => LET T2 == tables'[loc[h].tid]
                    i == SeatOf(h)
                    p == Before(h)
                IN  /\ OtherHandsSame(p, T2.players[i], 0)
                    /\ T2.state = "player_turn"
                       => ~(/\ T2.current_player_index = i
                            /\ status(T2.players[i]) \in Terminal)]_vars

\* a double has just been accepted in a round and has bust the hand
C18_Witness ==
    \E h \in Slots :
        /\ pc[h] = "double_answer" /\ loc[h].live
        /\ tables[loc[h].tid].state = "player_turn"
        /\ LET p == tables[loc[h].tid].players[get_player(tables[loc[h].tid], loc[h].uid)]
           IN  /\ Len(hand(p)) = 3
               /\ status(p) = "bust"
               /\ bet(p) = 2 * p.original_bet

\* C19: a hit accepted in a round for a "playing" hand draws exactly one card
\* into the current hand and changes no other hand; the hand is then bust if
\* its value is over 21, stand if it is 21, and below 21 it stays "playing"
\* with the pointer where it was.
C19_HitEffect ==
    [][\A h \in Slots, t \in Tids, u \in Users :
          (/\ Hit(h, t, u)
           /\ tables[t].state = "player_turn"
           /\ status(tables[t].players[get_player(tables[t], u)]) = "playing")
          => LET T == tables[t]
                 T2 == tables'[t]
                 i == get_player(T, u)
                 p == T.players[i]
                 q == T2.players[i]
                 k == p.current_hand_index
                 v == hand_value(q.hands[k])
             IN  /\ OneCardMore(p, q, k)
                 /\ T2.deck.len = T.deck.len - 1
                 /\ q.bets = p.bets
                 /\ OtherHandsSame(p, q, k)
                 /\ OtherSeatsSame(T, T2, i)
                 /\ q.current_hand_index = k
                 /\ T2.current_player_index = T.current_player_index
                 /\ T2.state = "player_turn"
                 /\ q.statuses[k] = IF v > 21 THEN "bust"
                                     ELSE IF v = 21 THEN "stand" ELSE "playing"
                 /\ pc'[h] = IF v >= 21 THEN "hit_answer" ELSE "idle"]_vars

\* a hit has left the second hand of a split below 21: it is still playing
\* and the pointer is on it
C19_Witness ==
    \E t \in Tids :
        /\ Quiet
        /\ tables[t].state = "player_turn"
        /\ tables[t].current_player_index \in 1 .. Len(tables[t].players)
        /\ LET p == tables[t].players[tables[t].current_player_index]
           IN  /\ Len(p.hands) = 2
               /\ p.current_hand_index = 2
               /\ Len(p.hands[2]) = 2
               /\ hand_value(p.hands[2]) < 21
               /\ p.statuses[2] = "playing"

\* ------------------------------------------------------------ start_game alone
\* a public table in waiting with 1 to MAX_PLAYERS seats, everybody ready,
\* for every shoe whose top is made of the cards of DealPool
InitSeated ==
    /\ tables \in {[t \in Tids |-> T] :
                     T \in UNION { {SeatedTable(n, shoe) : shoe \in DealShoes(n)} :
                                   n \in Seats }}
    /\ balance = [u \in Users |-> START_BALANCE]
    /\ pc = [h \in Procs |-> IF h = SWEEP THEN "sleep" ELSE "idle"]
    /\ loc = [h \in Procs |-> IdleLoc]
    /\ sent = 0

\* "if table.check_all_ready(): table.start_game()" on a table that is
\* still in waiting: the first deal of a lobby
DealRound ==
    /\ \E t \in Tids :
          /\ tables[t].state = "waiting"
          /\ check_all_ready(tables[t])
          /\ \E T2 \in start_game(tables[t]) : tables' = [tables EXCEPT ![t] = T2]
    /\ UNCHANGED <<balance, pc, loc, sent>>

SpecDeal == InitSeated /\ [][DealRound]_vars

\* c is the card the j-th draw from the shoe gives
Drawn(shoe, j, c) == IF j <= Len(shoe.top) THEN c = shoe.top[j] ELSE c \in RestCards

\* T2 is a table dealt from the shoe: the dealer holds draws 1 and 2, seat i
\* draws 2i+1 and 2i+2 as its one hand with its original bet, a 21 is
\* "blackjack" and any other hand "playing"; the pointer is on the first seat
\* that plays, and with no such seat the dealer has drawn to 17 and the
\* table is finished
Dealt(shoe, T2) ==
    LET n == Len(T2.players)
        more == Len(T2.dealer_hand) - 2
    IN  /\ more >= 0
        /\ Drawn(shoe, 1, T2.dealer_hand[1])
        /\ Drawn(shoe, 2, T2.dealer_hand[2])
        /\ T2.deck.len = shoe.len - (2 + 2 * n) - more
        /\ \A i \in 1 .. n :
              LET p == T2.players[i]
              IN  /\ Len(p.hands) = 1
                  /\ Len(p.hands[1]) = 2
                  /\ Drawn(shoe, 2 * i + 1, p.hands[1][1])
                  /\ Drawn(shoe, 2 * i + 2, p.hands[1][2])
                  /\ p.bets = <<p.original_bet>>
                  /\ p.statuses = <<IF hand_value(p.hands[1]) = 21
                                     THEN "blackjack" ELSE "playing">>
        /\ IF PlayingSeats(T2, 1) # {}
           THEN /\ T2.state = "player_turn"
                /\ more = 0
                /\ T2.current_player_index = LowestSeat(PlayingSeats(T2, 1))
                /\ T2.players[T2.current_player_index].current_hand_index = 1
           ELSE /\ T2.state = "finished"
                /\ hand_value(T2.dealer_hand) >= 17

\* C20: start_game draws the dealer's two cards first and then two cards for
\* every player in seat order; afterwards every player has one two-card hand
\* with bet original_bet and status blackjack when its value is 21, playing
\* otherwise, and the pointer is on the first seat with a playing hand; when
\* every seat holds a natural the table is finished by start_game itself.
C20_DealOrderAndNaturals ==
    [][\A t \in Tids :
          (tables'[t].rounds = tables[t].rounds + 1 /\ tables'[t].state # "waiting")
          => \E shoe \in (IF tables[t].made THEN {tables[t].deck} ELSE create_shoe) :
                Dealt(shoe, tables'[t])]_vars

\* three seats were dealt, the first a natural, and the pointer is on seat 2
C20_Witness ==
    \E t \in Tids :
        /\ tables[t].state = "player_turn"
        /\ tables[t].rounds = 1
        /\ sent = 0
        /\ Len(tables[t].players) = MAX_PLAYERS
        /\ tables[t].players[1].statuses = <<"blackjack">>
        /\ tables[t].players[2].statuses = <<"playing">>
        /\ tables[t].current_player_index = 2

\* ------------------------------------------------------------ the dealer alone
\* a table in dealer_turn for every two-card dealer hand and every next three
\* cards of the shoe over DealerPool
DealerPool == {<<"A", "S">>, <<"6", "H">>, <<"5", "D">>, <<"K", "C">>, <<"2", "S">>}

InitDealer ==
    /\ tables \in {[t \in Tids |->
                       [GameTable(FALSE, 1, [len |-> TOTAL_CARDS, top |-> f])
                          EXCEPT !.dealer_hand = d, !.state = "dealer_turn"]] :
                     f \in [1 .. 3 -> DealerPool], d \in [1 .. 2 -> DealerPool]}
    /\ balance = [u \in Users |-> START_BALANCE]
    /\ pc = [h \in Procs |-> IF h = SWEEP THEN "sleep" ELSE "idle"]
    /\ loc = [h \in Procs |-> IdleLoc]
    /\ sent = 0

DealerPlays ==
    /\ \E t \in Tids :
          /\ tables[t].state = "dealer_turn"
          /\ \E T2 \in play_dealer(tables[t]) : tables' = [tables EXCEPT ![t] = T2]
    /\ UNCHANGED <<balance, pc, loc, sent>>

SpecDealer == InitDealer /\ [][DealerPlays]_vars /\ WF_vars(DealerPlays)

\* the dealer hand d stands at 17 or more and its last draw, if any, was
\* made below 17
DealerStopped(d) ==
    /\ Len(d) >= 2
    /\ hand_value(d) >= 17
    /\ Len(d) > 2 => hand_value(SubSeq(d, 1, Len(d) - 1)) < 17

\* C21: play_dealer terminates; in every finished state the dealer's hand is
\* worth at least 17 and, when the dealer drew, the hand without its last
\* card was worth less than 17: the dealer never draws at 17 or more, a soft
\* 17 included.
C21_DealerStandsAt17 ==
    /\ [](\A t \in Tids : tables[t].state = "finished" => DealerStopped(tables[t].dealer_hand))
    /\ <>(\A t \in Tids : tables[t].state = "finished")

\* the dealer drew two cards or more with an ace in hand and stopped
C21_Witness ==
    \E t \in Tids :
        /\ tables[t].state = "finished"
        /\ Len(tables[t].dealer_hand) >= 4
        /\ CountAces(tables[t].dealer_hand) > 0

\* ------------------------------------------------------------ the sweep's visit
\* a dealt table of two seats on which nobody plays: players leave, time
\* passes and the sweep makes its rounds
NextIdle ==
    \/ \E t \in Tids, u \in Users : Leave(t, u)
    \/ \E d \in TickSteps : Tick(d)
    \/ SweepVisit
    \/ FinStep(SWEEP)

\* the sweep loop never ends: a visit or a settlement it can make is made
SpecIdle ==
    InitPlay /\ [][NextIdle]_vars /\ WF_vars(SweepVisit) /\ WF_vars(FinStep(SWEEP))

\* the table the sweep visits next
SweepTable ==
    Head(IF pc[SWEEP] = "sleep" THEN registered_from(tables, 1) ELSE loc[SWEEP].rest)

\* the cards, bets and statuses of q are those of p, but for the status of
\* hand k
SameButStatus(p, q, k) ==
    /\ q.hands = p.hands
    /\ q.bets = p.bets
    /\ Len(q.statuses) = Len(p.statuses)
    /\ \A m \in 1 .. Len(p.statuses) : m # k => q.statuses[m] = p.statuses[m]

Ranks == {"2", "3", "4", "5", "6", "7", "8", "9", "10", "J", "Q", "K", "A"}
Suits == {"S", "H", "D", "C"}
Deck52 == Ranks \X Suits

\* the number of cards of S in the card count b
RECURSIVE CountIn(_, _)
CountIn(b, S) ==
    IF S = {} THEN 0
    ELSE LET c == CHOOSE d \in S : TRUE IN b[c] + CountIn(b, S \ {c})

shoe_size(b) == CountIn(b, Deck52)

\* base_deck * DECKS_COUNT
new_shoe == [c \in Deck52 |-> DECKS_COUNT]
NoCards == [c \in Deck52 |-> 0]

\* a pop that leaves the card in the shoe
take_none(b, c) == b

\* the cards b without one copy of c, and with one more
take(b, c) == [b EXCEPT ![c] = @ - 1]

put(b, c) == [b EXCEPT ![c] = @ + 1]

\* a CardSystem: the shoe, the cards drawn from it since create_shoe and
\* the flag its last get_card returned
CardSystem(b) ==
    [cards |-> b, drawn |-> [c \in Deck52 |-> DECKS_COUNT - b[c]], s |-> FALSE]

\* a get_card that rebuilds one card later
shoe_get_card_late(cs) ==
    LET renew == shoe_size(cs.cards) < RESHUFFLE_THRESHOLD - 1
        from == IF renew THEN CardSystem(new_shoe) ELSE cs
    IN  {[cards |-> take(from.cards, c), drawn |-> put(from.drawn, c), s |-> renew] :
         c \in {d \in Deck52 : from.cards[d] > 0}}

\* CardSystem.get_card: every CardSystem the call may leave; the card
\* returned is the one that moved to drawn
shoe_get_card(cs) ==
    LET renew == shoe_size(cs.cards) < RESHUFFLE_THRESHOLD
        from == IF renew THEN CardSystem(new_shoe) ELSE cs
    IN  {[cards |-> take(from.cards, c), drawn |-> put(from.drawn, c), s |-> renew] :
         c \in {d \in Deck52 : from.cards[d] > 0}}

\* a shoe of n cards, n from 59 to 62, late in its life
WornSizes == (RESHUFFLE_THRESHOLD - 1) .. (RESHUFFLE_THRESHOLD + 2)
WornShoe(n) ==
    [c \in Deck52 |->
        IF c = <<"A", "S">> /\ n < RESHUFFLE_THRESHOLD
        THEN DECKS_COUNT - (RESHUFFLE_THRESHOLD - n)
        ELSE IF c[1] \in {"A", "K", "5"} THEN DECKS_COUNT
        ELSE IF c = <<"2", "S">> /\ n > RESHUFFLE_THRESHOLD
        THEN n - RESHUFFLE_THRESHOLD
        ELSE 0]

\* a table that only holds its CardSystem, new or worn
InitShoe ==
    /\ tables \in {[t \in Tids |-> [NoTable EXCEPT !.made = TRUE, !.deck = CardSystem(b)]] :
                     b \in {new_shoe} \cup {WornShoe(n) : n \in WornSizes}}
    /\ balance = [u \in Users |-> START_BALANCE]
    /\ pc = [h \in Procs |-> IF h = SWEEP THEN "sleep" ELSE "idle"]
    /\ loc = [h \in Procs |-> IdleLoc]
    /\ sent = 0

\* one get_card call
DrawCard ==
    /\ sent < MaxDraws
    /\ sent' = sent + 1
    /\ \E t \in Tids : \E cs \in shoe_get_card(tables[t].deck) :
          tables' = [tables EXCEPT ![t].deck = cs]
    /\ UNCHANGED <<balance, pc, loc>>

SpecShoe == InitShoe /\ [][DrawCard]_vars

\* C23: while a shoe is not rebuilt, the cards left plus the cards drawn are
\* 52 x DECKS_COUNT = 260 after every get_card: the call removes exactly one
\* card, the shoe never holds more than 260, and the cards left together
\* with the cards drawn are 5 copies of each of the 52 cards.
C23_ShoeConserved ==
    /\ [](\A t \in Tids :
            LET cs == tables[t].deck
            IN  /\ shoe_size(cs.cards) + shoe_size(cs.drawn) = TOTAL_CARDS
                /\ shoe_size(cs.cards) <= TOTAL_CARDS
                /\ \A c \in Deck52 : cs.cards[c] >= 0 /\ cs.cards[c] + cs.drawn[c] = DECKS_COUNT)
    /\ [][\A t \in Tids :
            (tables'[t].deck # tables[t].deck /\ ~tables'[t].deck.s)
            => /\ shoe_size(tables'[t].deck.cards) = shoe_size(tables[t].deck.cards) - 1
               /\ shoe_size(tables'[t].deck.drawn) = shoe_size(tables[t].deck.drawn) + 1]_vars

\* three copies of one card were drawn from a new shoe
C23_Witness ==
    \E t \in Tids : \E c \in Deck52 :
        /\ tables[t].deck.drawn[c] = MaxDraws
        /\ tables[t].deck.cards[c] = DECKS_COUNT - MaxDraws
        /\ shoe_size(tables[t].deck.cards) = TOTAL_CARDS - MaxDraws

\* C24: a get_card on a shoe of 59 cards rebuilds it once, returns
\* reshuffled = True and leaves 259 cards; the get_card right after a rebuild
\* returns False; a get_card on a shoe of 60 cards or more does not rebuild.
C24_RebuildBelowThreshold ==
    [][\A t \in Tids :
          tables'[t].deck # tables[t].deck
          => LET n == shoe_size(tables[t].deck.cards)
                 cs == tables'[t].deck
             IN  /\ IF n < RESHUFFLE_THRESHOLD
                    THEN cs.s /\ shoe_size(cs.cards) = TOTAL_CARDS - 1
                    ELSE ~cs.s /\ shoe_size(cs.cards) = n - 1
                 /\ tables[t].deck.s => ~cs.s]_vars

\* a shoe of 60 gave a card, rested at 59 and was rebuilt by the next call
C24_Witness ==
    \E t \in Tids :
        /\ sent = 2
        /\ tables[t].deck.s
        /\ shoe_size(tables[t].deck.cards) = TOTAL_CARDS - 1

\* ------------------------------------------------------------ a worn shoe
\* a public table of two seats just dealt from a shoe of 64 to 67 cards
\* whose next six cards are kings and nines in any order: the deal leaves 59
\* to 61 cards or rebuilds the shoe at its last draw
WornLens == (RESHUFFLE_THRESHOLD + 4) .. (RESHUFFLE_THRESHOLD + 7)
WornPool == {<<"K", "H">>, <<"9", "C">>}

InitWorn ==
    /\ tables \in {[t \in Tids |-> T] :
                     T \in UNION { UNION { start_game(SeatedTable(2, [len |-> n, top |-> f])) :
                                           f \in [1 .. 6 -> WornPool] } :
                                   n \in WornLens }}
    /\ balance = [u \in Users |-> START_BALANCE]
    /\ pc = [h \in Procs |-> IF h = SWEEP THEN "sleep" ELSE "idle"]
    /\ loc = [h \in Procs |-> IdleLoc]
    /\ sent = 0

\* the commands of a round and of the lobby after it, one handler at a time
NextWorn ==
    \/ \E t \in Tids, u \in Users : Hit(1, t, u)
    \/ HitAnswer(1)
    \/ \E t \in Tids, u \in Users : Stand(1, t, u)
    \/ StandAnswer(1)
    \/ \E t \in Tids, u \in Users : Double(1, t, u)
    \/ DoubleResume(1)
    \/ DoubleAnswer(1)
    \/ \E t \in Tids, u \in Users : Split(1, t, u)
    \/ SplitResume(1)
    \/ RefuseAnswer(1)
    \/ FinStep(1)
    \/ \E t \in Tids, u \in Users : Rebet(1, t, u, 500)
    \/ RebetResume(1)
    \/ \E t \in Tids, u \in Users : Ready(1, t, u)
    \/ ReadyResume(1)
    \/ DealRender(1)

SpecWorn == InitWorn /\ [][NextWorn]_vars

\* the shoes n or fewer get_card calls may make of a shoe
RECURSIVE DrawsFrom(_, _)
DrawsFrom(shoe, n) ==
    IF n = 0 THEN {shoe}
    ELSE {shoe} \cup UNION {DrawsFrom(sh, n - 1) : sh \in {g.shoe : g \in get_card(shoe)}}

\* the most cards one step draws: a deal for MAX_PLAYERS seats and a dealer
\* who draws to 17 from two aces
MostDraws == 2 + 2 * MAX_PLAYERS + 5

\* C25: the shoe of a table is replaced only by get_card, and by get_card
\* only when it holds fewer than 60 cards before the draw: every step leaves
\* the shoe as it was or as a run of get_card calls makes it (start_game,
\* reset_round, split and the dealer's play included); the shoe holds 59 to
\* 260 cards at all times, so it may rest at 59, and get_card never pops
\* from an empty shoe.
C25_ShoeOnlyRebuiltByGetCard ==
    /\ [](\A t \in Tids :
            tables[t].made
            => LET shoe == tables[t].deck
               IN  /\ shoe.len \in (RESHUFFLE_THRESHOLD - 1) .. TOTAL_CARDS
                   /\ \A g \in get_card(shoe) :
                         /\ g.s <=> shoe.len < RESHUFFLE_THRESHOLD
                         /\ g.shoe.len = IF g.s THEN TOTAL_CARDS - 1 ELSE shoe.len - 1)
    /\ [][\A t \in Tids :
            (tables[t].made /\ tables'[t].deck # tables[t].deck)
            => tables'[t].deck \in DrawsFrom(tables[t].deck, MostDraws)]_vars

\* a shoe rests at 59 cards between two commands
C25_Witness ==
    \E t \in Tids :
        /\ Quiet
        /\ sent > 0
        /\ tables[t].deck.len = RESHUFFLE_THRESHOLD - 1
        /\ tables[t].state = "player_turn"

\* ------------------------------------------------------------ the value of a hand
\* a seat and the dealer hold the same cards; with every card one more both
\* values are computed: TablePlayer.value is kept in bet, _hand_value in dval
InitValue ==
    /\ tables = [t \in Tids |->
                   add_player(GameTable(FALSE, 1, [len |-> TOTAL_CARDS, top |-> <<>>]), 1, 500)]
    /\ balance = [u \in Users |-> START_BALANCE]
    /\ pc = [h \in Procs |-> IF h = SWEEP THEN "sleep" ELSE "idle"]
    /\ loc = [h \in Procs |-> IdleLoc]
    /\ sent = 0

AddCard ==
    /\ \E t \in Tids, r \in Ranks :
          /\ Len(tables[t].dealer_hand) < MaxHandLen
          /\ LET c == <<r, "S">>
                 T2 == [tables[t] EXCEPT !.dealer_hand = Append(@, c),
                                         !.players[1] = append_card(@, c)]
             IN  /\ tables' = [tables EXCEPT ![t] = T2]
                 /\ loc' = [loc EXCEPT ![1] =
                              [IdleLoc EXCEPT !.tid = t,
                                              !.bet = value(T2.players[1]),
                                              !.dval = hand_value(T2.dealer_hand)]]
    /\ UNCHANGED <<balance, pc, sent>>

SpecValue == InitValue /\ [][AddCard]_vars

\* the points of a card with an ace as 1, and of a hand
LowPoints(c) ==
    IF c[1] = "A" THEN 1
    ELSE IF c[1] \in {"J", "Q", "K"} THEN 10
    ELSE CHOOSE n \in 2 .. 10 : ToString(n) = c[1]

RECURSIVE LowTotal(_)
LowTotal(h) == IF h = <<>> THEN 0 ELSE LowPoints(Head(h)) + LowTotal(Tail(h))

\* the largest total up to 21 with each ace as 1 or 11, or the total with
\* every ace as 1 when even that is over 21
BestTotal(h) ==
    LET aces == Cardinality({k \in 1 .. Len(h) : h[k][1] = "A"})
        fits == {LowTotal(h) + 10 * k : k \in {j \in 0 .. aces : LowTotal(h) + 10 * j <= 21}}
    IN  IF fits = {} THEN LowTotal(h)
        ELSE CHOOSE v \in fits : \A w \in fits : w <= v

\* C26: for every hand of a bounded number of cards over all ranks
\* TablePlayer.value and GameTable._hand_value give the same number: the
\* largest total not over 21 with each ace as 1 or 11 (J, Q, K as 10), or
\* the total with every ace as 1 when that is over 21; [A] is 11, [A,A] 12,
\* [A,8,2] 21 and [A,9,A] 21.
C26_ValuesAgree ==
    /\ \A t \in Tids :
          tables[t].dealer_hand # <<>>
          => /\ loc[1].bet = loc[1].dval
             /\ loc[1].dval = BestTotal(tables[t].dealer_hand)
             /\ hand(tables[t].players[1]) = tables[t].dealer_hand
    /\ hand_value(<< <<"A", "S">> >>) = 11
    /\ hand_value(<< <<"A", "S">>, <<"A", "H">> >>) = 12
    /\ hand_value(<< <<"A", "S">>, <<"8", "H">>, <<"2", "D">> >>) = 21
    /\ hand_value(<< <<"A", "S">>, <<"9", "H">>, <<"A", "D">> >>) = 21

\* the hand A, 9, A was valued 21 by both
C26_Witness ==
    \E t \in Tids :
        /\ tables[t].dealer_hand = << <<"A", "S">>, <<"9", "S">>, <<"A", "S">> >>
        /\ loc[1].bet = 21
        /\ loc[1].dval = 21

\* ------------------------------------------------------------ the split test
\* a solo table whose player was dealt any two of the 52 cards and sends split
InitPair ==
    /\ tables \in {[t \in Tids |->
                       LET T == add_player(GameTable(FALSE, 1, [len |-> TOTAL_CARDS, top |-> <<>>]),
                                           1, 500)
                           h == <<c1, c2>>
                       IN  [T EXCEPT !.state = "player_turn",
                                     !.players[1].hands = <<h>>,
                                     !.players[1].statuses =
                                         <<IF hand_value(h) = 21 THEN "blackjack" ELSE "playing">>]] :
                     c1 \in Deck52, c2 \in Deck52}
    /\ balance = [u \in Users |-> START_BALANCE]
    /\ pc = [h \in Procs |-> IF h = SWEEP THEN "sleep" ELSE "idle"]
    /\ loc = [h \in Procs |-> IdleLoc]
    /\ sent = 0

NextPair == \E t \in Tids : Split(1, t, 1)

SpecPair == InitPair /\ [][NextPair]_vars

TenLike == {"10", "J", "Q", "K"}

\* C27: can_split_cards(c1, c2) is true exactly when the two ranks are equal
\* or both are among 10, J, Q, K, for every pair of cards; the suits do not
\* matter and the result is the same with the two cards swapped.
C27_SplitTest ==
    \A t \in Tids :
        LET h == tables[t].players[1].hands[1]
            ok == h[1][1] = h[2][1] \/ (h[1][1] \in TenLike /\ h[2][1] \in TenLike)
        IN  /\ can_split_cards(h[1], h[2]) <=> ok
            /\ can_split_cards(h[2], h[1]) <=> ok
            /\ \A s1 \in Suits, s2 \in Suits :
                  can_split_cards(<<h[1][1], s1>>, <<h[2][1], s2>>) <=> ok
            /\ pc[1] = "split_balance" => ok
            /\ pc[1] = "refuse_answer" => ~ok

\* the split of a king and a ten of two suits passed the test
C27_Witness ==
    \E t \in Tids :
        /\ pc[1] = "split_balance"
        /\ tables[t].players[1].hands[1] = << <<"K", "S">>, <<"10", "H">> >>

\* ------------------------------------------------------------ joining a lobby
\* the users who come to a lobby and the handlers that may run at once
Joiners == 1 .. (MAX_PLAYERS + 1)
JoinSlots == {1, 2}

\* a public table in waiting with the users 1 .. n seated, n up to MAX_PLAYERS
InitJoin ==
    /\ tables \in {[t \in Tids |->
                       SeatedTable(n, [len |-> TOTAL_CARDS, top |-> <<>>])] : n \in Seats}
    /\ balance = [u \in Joiners |-> START_BALANCE]
    /\ pc = [h \in {SWEEP} \cup JoinSlots |-> IF h = SWEEP THEN "sleep" ELSE "idle"]
    /\ loc = [h \in {SWEEP} \cup JoinSlots |-> IdleLoc]
    /\ sent = 0

\* cb_prejoin: the only test of the seat cap; it shows the keyboard with the
\* joinbet_ buttons and the custom bet button, or refuses
Prejoin(t, u) ==
    /\ Send
    /\ IF /\ tables[t].reg /\ tables[t].state = "waiting"
          /\ Len(tables[t].players) < MAX_PLAYERS
          /\ ~Seated(tables[t], u)
       THEN tables' = [tables EXCEPT ![t].asked = @ \cup {u}]
       ELSE UNCHANGED tables
    /\ UNCHANGED <<balance, pc, loc>>

\* a joinbet_ button of the keyboard cb_prejoin showed is pressed
JoinAsked(h, t, u, b) == u \in tables[t].asked /\ JoinCheck(h, t, u, b)

\* process_multi_custom_bet in mode "join" up to its get_player_data
CustomBet(h, t, u, b) ==
    /\ Send
    /\ pc[h] = "idle"
    /\ u \in tables[t].asked
    /\ pc' = [pc EXCEPT ![h] = "custom_balance"]
    /\ loc' = [loc EXCEPT ![h] = [IdleLoc EXCEPT !.tid = t, !.uid = u, !.bet = b]]
    /\ UNCHANGED <<tables, balance>>

\* its balance check, then join_multi_table up to its get_player_data
CustomResume(h) ==
    /\ UNCHANGED <<sent, balance>>
    /\ pc[h] = "custom_balance"
    /\ LET l == loc[h]
           T == tables[l.tid]
       IN  IF \/ balance[l.uid] < l.bet
              \/ ~T.reg \/ T.state # "waiting"
              \/ Seated(T, l.uid)
           THEN /\ pc' = [pc EXCEPT ![h] = "idle"]
                /\ loc' = [loc EXCEPT ![h] = IdleLoc]
                /\ UNCHANGED tables
           ELSE /\ tables' = leave_all_tables(tables, l.uid, 0)
                /\ pc' = [pc EXCEPT ![h] = "custom_join"]
                /\ loc' = detach(loc, tables, l.uid, left_tables(tables, l.uid, 0))

\* join_multi_table from add_player on
CustomJoin(h) ==
    /\ UNCHANGED <<sent, balance>>
    /\ pc[h] = "custom_join"
    /\ tables' = update_table_messages(
                    [tables EXCEPT ![loc[h].tid] = add_player(@, loc[h].uid, loc[h].bet)],
                    loc[h].tid)
    /\ pc' = [pc EXCEPT ![h] = "idle"]
    /\ loc' = [loc EXCEPT ![h] = IdleLoc]

NextJoin ==
    \/ \E t \in Tids, u \in Joiners : Prejoin(t, u)
    \/ \E h \in JoinSlots, t \in Tids, u \in Joiners : JoinAsked(h, t, u, 500)
    \/ \E h \in JoinSlots : JoinResume(h)
    \/ \E h \in JoinSlots, t \in Tids, u \in Joiners : CustomBet(h, t, u, 500)
    \/ \E h \in JoinSlots : CustomResume(h)
    \/ \E h \in JoinSlots : CustomJoin(h)

SpecJoin == InitJoin /\ [][NextJoin]_vars

\* C28: no table ever has more than MAX_PLAYERS seated players: a join by a
\* preset bet or by a custom bet to a table that has 3 players is refused.
C28_SeatCap == \A t \in Tids : Len(tables[t].players) <= MAX_PLAYERS

\* C29: a user id is in a table's player list at most once at all times,
\* also when two joins of one user to one table are handled at once.
C29_SeatedOnce ==
    \A t \in Tids : \A i, j \in 1 .. Len(tables[t].players) :
        i # j => tables[t].players[i].user_id # tables[t].players[j].user_id

\* ------------------------------------------------------------ sweep and registry
\* C30: every table the sweep forces a stand on, and every table whose
\* players it settles, is in the registry at the moment the sweep does so.
C30_SweepOnlyRegistered ==
    [][/\ (SweepVisit /\ tables' # tables) => tables[SweepTable].reg
       /\ FinStep(SWEEP) => tables[loc[SWEEP].tid].reg]_vars

\* ------------------------------------------------------------ leaving
\* C31: after a leave the registry holds no table without players: the leave
\* that removes the last player of a table deletes the table in the same
\* step, and a leave never deletes a table that still has a player.
C31_LeaveDeletesEmptyTable ==
    [][/\ \A t \in Tids : tables'[t].reg => tables'[t].players # <<>>
       /\ \A t \in Tids, u \in Users :
            Leave(t, u) => (tables'[t].reg <=> tables'[t].players # <<>>)]_vars

\* a public table was left by its last player
C31_Witness ==
    \E t \in Tids : /\ tables[t].made /\ tables[t].is_public
                     /\ ~tables[t].reg /\ tables[t].players = <<>>
                     /\ tables[t].state = "waiting"

\* ------------------------------------------------------------ the rematch
\* a rebet of handler h that passes its balance check on a finished table:
\* the step that calls reset_round
ResetBy(h) ==
    /\ RebetResume(h)
    /\ tables[loc[h].tid].state = "finished"
    /\ balance[loc[h].uid] >= loc[h].bet

\* C32: reset_round moves a finished table to waiting and leaves the seat
\* order, the owner and the shoe as they are; it clears the dealer hand,
\* gives every player one empty hand with bet equal to original_bet and
\* status waiting, and sets every ready flag to false.
C32_ResetRound ==
    [][\A h \in Slots : ResetBy(h) =>
          LET T == tables[loc[h].tid]
              T2 == tables'[loc[h].tid]
          IN  /\ T2.state = "waiting"
              /\ T2.dealer_hand = <<>>
              /\ T2.owner_id = T.owner_id
              /\ T2.deck = T.deck
              /\ Len(T2.players) = Len(T.players)
              /\ \A i \in 1 .. Len(T.players) :
                    LET q == T2.players[i]
                    IN  /\ q.user_id = T.players[i].user_id
                        /\ q.hands = << <<>> >>
                        /\ q.bets = <<q.original_bet>>
                        /\ q.statuses = <<"waiting">>
                        /\ q.current_hand_index = 1
                        /\ ~q.is_ready]_vars

\* a table of two seats back in waiting after its round, the shoe used
C32_Witness ==
    \E t \in Tids : /\ tables[t].reg /\ tables[t].state = "waiting"
                     /\ tables[t].rounds = 2
                     /\ Len(tables[t].players) = 2
                     /\ tables[t].deck.len < TOTAL_CARDS
                     /\ tables[t].dealer_hand = <<>>

\* ------------------------------------------------------------ bets in a round
\* the bets of the hands and the ready flags of the seats of a table
BetsOf(T) == [i \in 1 .. Len(T.players) |-> T.players[i].bets]

ReadyOf(T) == [i \in 1 .. Len(T.players) |-> T.players[i].is_ready]

\* C33: while a table is in player_turn a rebet changes no hand's bet and no
\* ready flag; during a round the bet of a hand changes only by a double.
C33_NoRebetInRound ==
    [][\A t \in Tids :
          tables[t].state = "player_turn" =>
             /\ \A h \in Slots :
                   (RebetResume(h) /\ loc[h].tid = t) =>
                      /\ BetsOf(tables'[t]) = BetsOf(tables[t])
                      /\ ReadyOf(tables'[t]) = ReadyOf(tables[t])
             /\ (/\ tables'[t].state = "player_turn"
                 /\ tables'[t].rounds = tables[t].rounds
                 /\ \E i \in 1 .. Len(tables[t].players) :
                       /\ i <= Len(tables'[t].players)
                       /\ tables'[t].players[i].user_id = tables[t].players[i].user_id
                       /\ \E k \in 1 .. Len(tables[t].players[i].bets) :
                             tables'[t].players[i].bets[k] # tables[t].players[i].bets[k])
                => \E h \in Slots : DoubleResume(h)]_vars

\* ------------------------------------------------------------ the start of a round
\* C34: a public table does not rest in waiting with a seated player and
\* every seated player ready: the step that makes the last seat ready, or
\* takes the only seat that is not ready away, starts the round.
C34_AllReadyStarts ==
    Quiet => \A t \in Tids :
                (/\ tables[t].reg /\ tables[t].is_public
                 /\ tables[t].state = "waiting")
                   => ~check_all_ready(tables[t])

\* ------------------------------------------------------------ rounds end
\* nobody plays, players may leave; the clock goes on and the sweep is
\* scheduled again and again
SpecClock ==
    /\ InitPlay /\ [][NextIdle]_vars
    /\ WF_vars(\E d \in TickSteps : Tick(d))
    /\ WF_vars(SweepVisit) /\ WF_vars(FinStep(SWEEP))

\* C35: with the sweep scheduled fairly, a table in player_turn reaches
\* finished, also when nobody sends a game command and players leave during
\* the round: no table stays in player_turn for ever.
C35_RoundEnds ==
    \A t \in Tids :
        (tables[t].reg /\ tables[t].state = "player_turn")
            ~> (~tables[t].reg \/ tables[t].state = "finished")

\* ------------------------------------------------------------ bets and balance
RECURSIVE SumBets(_, _)
SumBets(p, k) == IF k > Len(p.bets) THEN 0 ELSE p.bets[k] + SumBets(p, k + 1)

\* C36: the bets of all hands of a player in a round together never exceed
\* the player's balance, and no settlement writes a negative balance.
C36_BetsCovered ==
    /\ \A u \in DOMAIN balance : balance[u] >= 0
    /\ \A t \in Tids :
          (tables[t].reg /\ tables[t].state = "player_turn") =>
             \A i \in 1 .. Len(tables[t].players) :
                SumBets(tables[t].players[i], 1)
                    <= balance[tables[t].players[i].user_id]

\* ------------------------------------------------------------ busts
\* the TablePlayer finalize_game_db of coroutine h settles next
Settled(h) ==
    LET e == Head(loc[h].fin)
    IN  IF e.live
        THEN tables[loc[h].tid].players[get_player(tables[loc[h].tid], e.uid)]
        ELSE e.rec

\* C37: on a finished table a hand has status bust exactly when its value
\* is over 21, and a hand over 21 is never settled as a win or a push.
C37_BustIffOver21 ==
    [][/\ \A t \in Tids :
            (tables[t].reg /\ tables[t].state = "finished") =>
               \A i \in 1 .. Len(tables[t].players) :
                  \A k \in 1 .. Len(tables[t].players[i].hands) :
                     (tables[t].players[i].statuses[k] = "bust")
                        <=> (hand_value(tables[t].players[i].hands[k]) > 21)
       /\ \A h \in Procs :
            FinStep(h) =>
               \A k \in 1 .. Len(Settled(h).hands) :
                  hand_value(Settled(h).hands[k]) > 21 =>
                     hand_result(Settled(h).statuses[k], Settled(h).bets[k],
                                 Settled(h).hands[k], loc[h].dval).win < 0]_vars

\* ------------------------------------------------------------ last activity
\* the step ends the part of an accepted hit, stand, double or split that
\* works on table t: a hit below 21, the end of a hit, stand or double after
\* its answer, a split that made the two hands
ActedOn(t) ==
    \/ \E h \in Slots, u \in Users : Hit(h, t, u) /\ pc'[h] # "hit_answer"
    \/ \E h \in Slots :
          /\ loc[h].tid = t
          /\ \/ HitAnswer(h) \/ StandAnswer(h) \/ DoubleAnswer(h)
             \/ SplitResume(h) /\ tables'[t].players # tables[t].players

\* C38: every accepted hit, stand, double or split resets the last activity
\* of its table, so the sweep forces a stand only more than TURN_TIMEOUT
\* after the last accepted action.
C38_ActionResetsActivity ==
    [][\A t \in Tids : ActedOn(t) => tables'[t].elapsed = 0]_vars

\* ------------------------------------------------------------ the shuffle flag
\* C39: the shuffle flag of a table is true exactly when a draw since the
\* start of the deal of its round rebuilt the shoe: a step whose draws
\* rebuild the shoe (the shoe grows) leaves the flag true, the flag is put
\* up only by such a step, and it is taken down only by start_game.
C39_ShuffleFlag ==
    [][\A t \in Tids :
          tables[t].made =>
             /\ tables'[t].deck.len > tables[t].deck.len => tables'[t].shuffle_alert
             /\ (tables'[t].shuffle_alert /\ ~tables[t].shuffle_alert)
                   => tables'[t].deck.len > tables[t].deck.len
             /\ (~tables'[t].shuffle_alert /\ tables[t].shuffle_alert)
                   => /\ tables'[t].rounds = tables[t].rounds + 1
                      /\ tables'[t].state # "waiting"]_vars

\* ------------------------------------------------------------ one seat per user
\* a registry with room for two tables
TwoTables == {1, 2}

InitSeat ==
    /\ tables = [t \in TwoTables |-> NoTable]
    /\ balance = [u \in Users |-> START_BALANCE]
    /\ pc = [h \in Procs |-> IF h = SWEEP THEN "sleep" ELSE "idle"]
    /\ loc = [h \in Procs |-> IdleLoc]
    /\ sent = 0

\* the commands that seat a user: solo start, create, and the two joins.
\* No deal from a shoe of Shuffles ends the round of a solo table at once, so
\* cb_start_solo never enters finalize_game_db here
NextSeat ==
    \/ \E u \in Users : CreateMulti(u, 500)
    \/ \E u \in Users : StartSolo(1, u, 500)
    \/ DealRender(1)
    \/ \E t \in TwoTables, u \in Users : Prejoin(t, u)
    \/ \E t \in TwoTables, u \in Users : JoinAsked(1, t, u, 500)
    \/ JoinResume(1)
    \/ \E t \in TwoTables, u \in Users : CustomBet(1, t, u, 500)
    \/ CustomResume(1)
    \/ CustomJoin(1)

SpecSeat == InitSeat /\ [][NextSeat]_vars

\* C40: a user is seated at no more than one table of the registry at any
\* time, also when the user's solo start, create and join commands
\* interleave at their awaits.
C40_OneTablePerUser ==
    \A u \in Users : \A s, t \in DOMAIN tables :
        (/\ tables[s].reg /\ Seated(tables[s], u)
         /\ tables[t].reg /\ Seated(tables[t], u)) => s = t

====
